---- MODULE Spec2Model ----
(***************************************************************************)
(* Conversation persistence of the DataKnot chat client: the ChatManager   *)
(* class of src/main.js (duplicated verbatim in src/unnamed/part_004).     *)
(* The storage root chat_history/ holds one directory chat_<id> per        *)
(* conversation with conversation.json, metadata.json and artifacts/.     *)
(* saveChatHistory is modelled one filesystem call per step; the other     *)
(* operations are single-writer calls made while no save is in progress.   *)
(***************************************************************************)
EXTENDS Integers, Sequences, FiniteSets, TLC

(* ------------------------------ bounds -------------------------------- *)
\* longest conversation list handed to saveChatHistory
MaxConvs == 2
\* latest reading of the clock
MaxClock == 1
\* conversation identifiers
Ids == {1, 2}
\* artifact file names
Names == {"x.json", "y.txt"}
\* the name used where one artifact is enough
OneName == {"x.json"}

(* --------------------------- text and JSON ---------------------------- *)
\* Message contents are sequences of one-character strings, so that
\* trim/toLowerCase/startsWith/substring are computed character by character.
Whitespace == {" ", "\t", "\n"}

\* String.prototype.toLowerCase on one character
LowerChar(c) ==
    CASE c = "A" -> "a"   [] c = "B" -> "b"   [] c = "C" -> "c"
    [] c = "D" -> "d"   [] c = "E" -> "e"   [] c = "F" -> "f"
    [] c = "G" -> "g"   [] c = "H" -> "h"   [] c = "I" -> "i"
    [] c = "J" -> "j"   [] c = "K" -> "k"   [] c = "L" -> "l"
    [] c = "M" -> "m"   [] c = "N" -> "n"   [] c = "O" -> "o"
    [] c = "P" -> "p"   [] c = "Q" -> "q"   [] c = "R" -> "r"
    [] c = "S" -> "s"   [] c = "T" -> "t"   [] c = "U" -> "u"
    [] c = "V" -> "v"   [] c = "W" -> "w"   [] c = "X" -> "x"
    [] c = "Y" -> "y"   [] c = "Z" -> "z"
    [] OTHER -> c

toLowerCase(s) == [i \in 1..Len(s) |-> LowerChar(s[i])]

RECURSIVE FirstKept(_, _)
\* index of the first non-whitespace character of s at or after i
FirstKept(s, i) ==
    IF i > Len(s) \/ s[i] \notin Whitespace THEN i ELSE FirstKept(s, i + 1)

RECURSIVE LastKept(_, _)
\* index of the last non-whitespace character of s at or before i
LastKept(s, i) ==
    IF i < 1 \/ s[i] \notin Whitespace THEN i ELSE LastKept(s, i - 1)

\* String.prototype.trim: drop leading and trailing whitespace
trim(s) == SubSeq(s, FirstKept(s, 1), LastKept(s, Len(s)))

startsWith(s, p) == Len(s) >= Len(p) /\ SubSeq(s, 1, Len(p)) = p

\* String.prototype.substring(n): the characters from 0-based index n on
substring(s, n) == SubSeq(s, n + 1, Len(s))

\* the directive prefix 'dataknot:' and the recognised command 'start recipe'
DataKnotPrefix == <<"d","a","t","a","k","n","o","t",":">>
StartRecipe == <<"s","t","a","r","t"," ","r","e","c","i","p","e">>
\* the literal 9 of messageContent.substring(9)
PrefixLen == 9

\* Objects are records; JSON text is the sequence of <<key, value>> pairs of
\* the object's own keys, nested for the messages array.
KeyOrder == <<"id", "title", "messages", "role", "content", "created",
              "lastModified", "messageCount", "version", "projectType",
              "foo", "a">>

KeysOf(o) == SelectSeq(KeyOrder, LAMBDA k : k \in DOMAIN o)

\* JSON.stringify of an object without nested objects
StringifyFlat(o) ==
    LET ks == KeysOf(o) IN [i \in 1..Len(ks) |-> <<ks[i], o[ks[i]]>>]

\* JSON.stringify(value, null, 2): a key whose value is undefined is absent
\* from the record and so from the text
JSONstringify(o) ==
    LET ks == KeysOf(o)
    IN  [i \in 1..Len(ks) |->
            <<ks[i],
              IF ks[i] = "messages"
              THEN [j \in 1..Len(o.messages) |-> StringifyFlat(o.messages[j])]
              ELSE o[ks[i]]>>]

\* what a file holds when it is not JSON text
CorruptText == <<<<"}", "{">>>>

\* the JSON text null, held as one pair so that JSONparse gives Null for it
NullText == <<<<"null", TRUE>>>>

\* the value null
Null == [null |-> TRUE]

IsNull(v) == "null" \in DOMAIN v

\* JSON.parse throws a SyntaxError on this text
ParseThrows(text) == \E i \in 1..Len(text) : text[i][1] = "}"

ParseFlat(text) ==
    [k \in {text[i][1] : i \in 1..Len(text)} |->
        text[CHOOSE i \in 1..Len(text) : text[i][1] = k][2]]

\* JSON.parse of the text of an object
JSONparse(text) ==
    [k \in {text[i][1] : i \in 1..Len(text)} |->
        LET v == text[CHOOSE i \in 1..Len(text) : text[i][1] = k][2]
        IN  IF k = "messages" THEN [j \in 1..Len(v) |-> ParseFlat(v[j])]
            ELSE v]

(* --------------------------- conversations ---------------------------- *)
Hi == <<"h","i">>
\* ' DataKnot:  Start Recipe ' : mixed case, surrounding and inner padding
CmdStart == <<" ","D","a","t","a","K","n","o","t",":"," "," ",
              "S","t","a","r","t"," ","R","e","c","i","p","e"," ">>
\* 'dataknot: go' : the prefix with a token that is not a command
CmdOther == <<"d","a","t","a","k","n","o","t",":"," ","g","o">>

User(c) == [role |-> "user", content |-> c]
Assistant(c) == [role |-> "assistant", content |-> c]

Conv(id, msgs) == [id |-> id, title |-> "t", messages |-> msgs]
\* a conversation object whose messages field is undefined
ConvNoMessages(id) == [id |-> id, title |-> "t"]

MessageLists == {<<User(Hi)>>, <<User(CmdStart)>>}

Convs == {Conv(i, m) : i \in Ids, m \in MessageLists}
             \cup {ConvNoMessages(i) : i \in Ids}

ConvLists == UNION {[1..n -> Convs] : n \in 0..MaxConvs}

(* ------------------------------ storage ------------------------------- *)
\* A file is <<>> when absent and <<text>> when present.
NoArtifacts == [n \in Names |-> <<>>]

NoDir == [exists |-> FALSE, conversation |-> <<>>, metadata |-> <<>>,
          hasArtifacts |-> FALSE, artifacts |-> NoArtifacts]
\* the result of mkdirSync on a conversation path
EmptyDir == [NoDir EXCEPT !.exists = TRUE]

NoDisk == [i \in Ids |-> NoDir]

Has(o, k) == k \in DOMAIN o

\* o[k] = v on a JavaScript object
Assign(o, k, v) == [x \in DOMAIN o \cup {k} |-> IF x = k THEN v ELSE o[x]]

\* a record written before projectType existed
LegacyMetadata(id) ==
    [id |-> id, title |-> "t", created |-> id, lastModified |-> 0,
     messageCount |-> 1, version |-> "1.0"]

\* a directory of an earlier version: no projectType, no artifacts directory
LegacyDir(id) ==
    [EmptyDir EXCEPT !.conversation = <<JSONstringify(Conv(id, <<User(Hi)>>))>>,
                     !.metadata = <<JSONstringify(LegacyMetadata(id))>>]

\* a directory whose record carries the caller-defined field foo
CustomDir(id) ==
    [EmptyDir EXCEPT !.conversation = <<JSONstringify(Conv(id, <<User(Hi)>>))>>,
                     !.metadata = <<JSONstringify(
                         Assign(Assign(LegacyMetadata(id), "projectType", "recipe"),
                                "foo", "bar"))>>,
                     !.hasArtifacts = TRUE]

\* a directory whose two files were cut short and do not parse
CorruptDir ==
    [EmptyDir EXCEPT !.conversation = <<CorruptText>>,
                     !.metadata = <<CorruptText>>]

\* a directory whose conversation.json holds the JSON text null
NullDir(id) ==
    [EmptyDir EXCEPT !.conversation = <<NullText>>,
                     !.metadata = <<JSONstringify(LegacyMetadata(id))>>]

\* 'chat_' of `chat_${conversation.id}` and of the startsWith filter
ChatPrefix == <<"c","h","a","t","_">>

\* String(id) for the identifiers in use
Digits == <<"1","2","3","4","5","6","7","8","9">>

\* `chat_${conversationId}`
DirName(id) == ChatPrefix \o <<Digits[id]>>

\* an identifier whose path chat_<id> is a regular file
FileId == 3

\* the identifier in the body kept in the directory of another name
BackupId == 9

\* names of entries of chat_history/ that are no conversation directory
FileName == DirName(FileId)
BackupName == <<"b","a","k">>
PlainName == <<"n",".","t","x","t">>
OtherNames == {FileName, BackupName, PlainName}
OtherOrder == <<BackupName, FileName, PlainName>>

NoEntry == [kind |-> "none", dir |-> NoDir, text |-> <<>>]
FileEntry == [kind |-> "file", dir |-> NoDir, text |-> <<"x">>]
DirEntry(dir) == [kind |-> "directory", dir |-> dir, text |-> <<>>]

\* a directory of another name that holds what a conversation directory holds
BackupDir ==
    [EmptyDir EXCEPT !.conversation = <<JSONstringify(Conv(BackupId, <<User(Hi)>>))>>,
                     !.metadata = <<JSONstringify(LegacyMetadata(BackupId))>>]

NoOthers == [n \in OtherNames |-> NoEntry]

VARIABLES
    root,       \* chat_history/ exists
    disk,       \* id -> the directory chat_<id>
    clock,      \* what Date.now() returns
    pc,         \* position of the running saveChatHistory, or "idle"/"done"
    convs,      \* the argument of the running or last saveChatHistory
    idx,        \* index of the conversation being written
    files,      \* directories of the readdirSync snapshot still to clear
    cur,        \* directory being removed by removeDirectoryRecursive (0: none)
    curFiles,   \* entries of cur still to remove
    artFiles,   \* artifacts of cur still to unlink
    pre,        \* the storage when the running or last saveChatHistory began
    ret,        \* outcome of the last call
    call,       \* position of the running or last call to the API server
    args,       \* the arguments of that call
    sent,       \* the requests that call has issued, in order
    responseData, \* the body its 'end' handler received, <<>> before
    outcome,    \* the promise that call returned
    logged,     \* the steps whose failure that call wrote to console.error
    conversationHistory, \* the history array of the command-line chat
    loop,       \* position of the command-line chat loop
    input,      \* the input the loop is working on
    fullContext, \* the prompt of the last askOllama
    ollamaData, \* the data the 'end' handler of askOllama received, <<>> before
    others      \* name -> the entry of chat_history/ that is no chat_<id> directory

vars == <<root, disk, clock, pc, convs, idx, files, cur, curFiles, artFiles,
          pre, ret, call, args, sent, responseData, outcome,
          logged, conversationHistory, loop, input, fullContext, ollamaData,
          others>>

cliVars == <<conversationHistory, loop, input, fullContext, ollamaData>>

apiVars == <<call, args, sent, responseData, outcome, logged>>

saveVars == <<convs, idx, files, cur, curFiles, artFiles, pre>>

\* id: the conversation the call was made for, 0 when it names none;
\* tag: the projectType or type argument, name: the artifactName argument,
\* "" when the call has none
Ret(op, err, list) ==
    [op |-> op, err |-> err, list |-> list, id |-> 0, tag |-> "", name |-> ""]

\* the outcome of a call made for the conversation id
RetFor(op, id, err) ==
    [op |-> op, err |-> err, list |-> <<>>, id |-> id, tag |-> "", name |-> ""]

\* the outcome of an artifact call; list holds the payload handed in or
\* returned, and is empty for null
RetArtifact(op, id, name, type, err, value) ==
    [op |-> op, err |-> err, list |-> value, id |-> id, tag |-> type,
     name |-> name]

\* no saveChatHistory is running; "done": the last call that wrote was a
\* saveChatHistory
Idle == pc \in {"idle", "done"}

\* a promise: state is "none" before any call, then "pending", then
\* "resolved" with value <<>> for undefined and <<text>> for a string, or
\* "rejected" with the error
NoOutcome == [state |-> "none", value |-> <<>>, error |-> "none"]

\* no call to the API server has been made
NoCall ==
    /\ call = "idle"
    /\ args = <<>>
    /\ sent = <<>>
    /\ responseData = <<>>
    /\ outcome = NoOutcome
    /\ logged = {}

\* the command-line chat has not been started
NoChat ==
    /\ conversationHistory = <<>>
    /\ loop = "start"
    /\ input = <<>>
    /\ fullContext = <<>>
    /\ ollamaData = <<>>

Init ==
    /\ \/ root = FALSE /\ disk = NoDisk
       \/ root = TRUE /\ disk \in [Ids -> {NoDir, CorruptDir} \cup
                                    UNION {{LegacyDir(i), CustomDir(i)} : i \in Ids}]
                      /\ \A i \in Ids : disk[i].exists =>
                             disk[i] \in {LegacyDir(i), CustomDir(i), CorruptDir}
    /\ clock = 0
    /\ pc = "idle"
    /\ convs = <<>>
    /\ idx = 0
    /\ files = {}
    /\ cur = 0
    /\ curFiles = {}
    /\ artFiles = {}
    /\ pre = NoDisk
    /\ ret = Ret("none", "none", <<>>)
    /\ NoCall
    /\ NoChat
    /\ others = NoOthers

(* --------------------------- saveChatHistory -------------------------- *)
\* the filter also asks for a conversation.json
ConversationDirsWithBody(d) ==
    {i \in Ids : d[i].exists /\ d[i].conversation # <<>>}

\* every directory passes
IsConversationDirAnyName(file, isDirectory) == isDirectory

\* stat.isDirectory() && file.startsWith('chat_')
IsConversationDir(file, isDirectory) ==
    isDirectory /\ startsWith(file, ChatPrefix)

\* readdirSync(chatHistoryDir) filtered by isDirectory() and
\* startsWith('chat_')
ConversationDirs(d) ==
    {i \in Ids : d[i].exists /\ IsConversationDir(DirName(i), d[i].exists)}

\* the entries of other names the same filter lets through
ConversationOthers(o) ==
    {n \in OtherNames : /\ o[n].kind # "none"
                        /\ IsConversationDir(n, o[n].kind = "directory")}

\* readdirSync(dirPath) of a conversation directory
DirEntries(dir) ==
    (IF dir.hasArtifacts THEN {"artifacts"} ELSE {})
    \cup (IF dir.conversation # <<>> THEN {"conversation.json"} ELSE {})
    \cup (IF dir.metadata # <<>> THEN {"metadata.json"} ELSE {})

\* readdirSync of an artifacts directory
ArtifactNames(dir) == {n \in Names : dir.artifacts[n] # <<>>}

\* rmdirSync fails silently: the directory stays
RemoveDirectoryKeeps(d, id) == [d EXCEPT ![id] = EmptyDir]

\* removeDirectoryRecursive(filePath) from entry to return
RemoveDirectory(d, id) == [d EXCEPT ![id] = NoDir]

\* the clear loop from entry to exit: every conversation directory removed
ClearAll(d) ==
    [i \in Ids |-> IF i \in ConversationDirs(d) THEN RemoveDirectory(d, i)[i]
                   ELSE d[i]]

\* the clear loop on the entries of other names
ClearOthers(o) ==
    [n \in OtherNames |-> IF n \in ConversationOthers(o) THEN NoEntry ELSE o[n]]

\* the last message whatever its role
LastMessageAnyRole(conversation) ==
    IF conversation.messages = <<>> THEN <<>>
    ELSE <<conversation.messages[Len(conversation.messages)]>>

\* conversation.messages.filter(msg => msg.role === 'user').pop(), as the
\* sequence holding that message, or <<>> when it is undefined
LastUserMessage(conversation) ==
    LET users == SelectSeq(conversation.messages, LAMBDA m : m.role = "user")
    IN  IF users = <<>> THEN <<>> ELSE <<users[Len(users)]>>

\* the comparison without toLowerCase
IsStartRecipeCaseSensitive(content) ==
    LET messageContent == trim(content)
    IN  /\ startsWith(messageContent, DataKnotPrefix)
        /\ trim(substring(messageContent, PrefixLen)) = StartRecipe

\* the message is the directive 'dataknot: start recipe'
IsStartRecipe(content) ==
    LET messageContent == toLowerCase(trim(content))
    IN  /\ startsWith(messageContent, DataKnotPrefix)
        /\ trim(substring(messageContent, PrefixLen)) = StartRecipe

\* created is taken from the clock
MetadataHeadCreatedNow(existing, conversation, now) ==
    Assign(Assign(Assign(Assign(existing,
        "id", conversation.id),
        "title", conversation.title),
        "created", now),
        "lastModified", now)

\* the metadata object before the messageCount assignment
MetadataHead(existing, conversation, now) ==
    Assign(Assign(Assign(Assign(existing,
        "id", conversation.id),
        "title", conversation.title),
        "created", conversation.id),
        "lastModified", now)

\* projectType defaults to 'chat' when the object has none
WithDefaultType(metadata) ==
    IF ~Has(metadata, "projectType") \/ metadata.projectType = ""
    THEN Assign(metadata, "projectType", "chat") ELSE metadata

\* no command is recognised
ProcessCommandNever(metadata, conversation, now) == metadata

\* the DataKnot command of the last user message applied to the object
ProcessCommand(metadata, conversation, now) ==
    LET last == LastUserMessage(conversation)
    IN  IF last # <<>> /\ IsStartRecipe(last[1].content)
        THEN Assign(Assign(metadata, "projectType", "recipe"),
                    "lastModified", now)
        ELSE metadata

\* messageCount counts the user messages only
NewMetadataCountsUsers(existing, conversation, now) ==
    ProcessCommand(
        WithDefaultType(
            Assign(Assign(MetadataHead(existing, conversation, now),
                "messageCount",
                Len(SelectSeq(conversation.messages,
                              LAMBDA m : m.role = "user"))),
                "version", "1.0")),
        conversation, now)

\* the metadata object that is written
NewMetadata(existing, conversation, now) ==
    ProcessCommand(
        WithDefaultType(
            Assign(Assign(MetadataHead(existing, conversation, now),
                "messageCount", Len(conversation.messages)),
                "version", "1.0")),
        conversation, now)

\* the existing metadata.json parsed, or {} when absent or unparsable
ExistingMetadata(dir) ==
    IF dir.metadata = <<>> \/ ParseThrows(dir.metadata[1])
    THEN <<>> ELSE JSONparse(dir.metadata[1])

\* the new directory is given a conversation.json
MkdirWithBody(d, id) ==
    IF d[id].exists THEN d
    ELSE [d EXCEPT ![id] =
             [EmptyDir EXCEPT !.conversation =
                  <<JSONstringify(Conv(id, <<>>))>>]]

\* mkdirSync(conversationPath) unless it exists
Mkdir(d, id) == IF d[id].exists THEN d ELSE [d EXCEPT ![id] = EmptyDir]

\* every conversation directory is given its artifacts directory
MkdirArtifactsEverywhere(d, id) ==
    [i \in Ids |-> [d[i] EXCEPT !.hasArtifacts = d[i].exists \/ i = id]]

\* mkdirSync(artifactsPath) unless it exists
MkdirArtifacts(d, id) == [d EXCEPT ![id].hasArtifacts = TRUE]

\* the messages are left out of the file
WriteConversationHead(d, conversation) ==
    [d EXCEPT ![conversation.id].conversation =
        <<JSONstringify([id |-> conversation.id, title |-> conversation.title])>>]

\* writeFileSync(conversationFile, JSON.stringify(conversation, null, 2))
WriteConversation(d, conversation) ==
    [d EXCEPT ![conversation.id].conversation = <<JSONstringify(conversation)>>]

\* conversation.messages.length throws a TypeError: messages is undefined
MetadataThrows(conversation) == ~Has(conversation, "messages")

\* the read-modify-write of metadata.json
WriteMetadata(d, conversation, now) ==
    [d EXCEPT ![conversation.id].metadata =
        <<JSONstringify(NewMetadata(ExistingMetadata(d[conversation.id]),
                                    conversation, now))>>]

\* the forEach callback up to the metadata step
WriteBody(d, conversation) ==
    WriteConversation(
        MkdirArtifacts(Mkdir(d, conversation.id), conversation.id),
        conversation)

RECURSIVE WriteFrom(_, _, _, _)
\* conversations.forEach from index i on; an exception thrown by a callback
\* leaves the forEach and is logged by the outer catch
WriteFrom(d, L, i, now) ==
    IF i > Len(L) THEN [disk |-> d, err |-> "none"]
    ELSE LET body == WriteBody(d, L[i])
         IN  IF MetadataThrows(L[i]) THEN [disk |-> body, err |-> "logged"]
             ELSE WriteFrom(WriteMetadata(body, L[i], now), L, i + 1, now)

\* saveChatHistory from entry to return
SaveResult(d, L, now) == WriteFrom(ClearAll(d), L, 1, now)

SaveChatHistory(L) ==
    /\ Idle
    /\ root' = TRUE
    /\ LET r == SaveResult(disk, L, clock)
       IN  /\ disk' = r.disk
           /\ ret' = Ret("save", r.err, <<>>)
    /\ others' = ClearOthers(others)
    /\ convs' = L
    /\ pc' = "done"
    /\ UNCHANGED <<clock, idx, files, cur, curFiles, artFiles, pre>>
    /\ UNCHANGED <<apiVars, cliVars>>

(* ------------- saveChatHistory, one filesystem call per step ---------- *)
\* where the forEach over conversations continues
ForEachPc(i, L) == IF i > Len(L) THEN "done" ELSE "mkdir"

\* entry: ensure the root, take the readdirSync snapshot
SaveBegin(L) ==
    /\ Idle
    /\ root' = TRUE
    /\ files' = ConversationDirs(disk)
    /\ convs' = L
    /\ pre' = disk
    /\ idx' = 1
    /\ pc' = "clear"
    /\ ret' = Ret("none", "none", <<>>)
    /\ UNCHANGED <<disk, clock, cur, curFiles, artFiles>>
    /\ UNCHANGED <<apiVars, cliVars, others>>

\* files.forEach: the next directory enters removeDirectoryRecursive
SaveClearNext ==
    /\ pc = "clear"
    /\ \E d \in files :
        /\ files' = files \ {d}
        /\ cur' = d
        /\ curFiles' = DirEntries(disk[d])
    /\ pc' = "remove"
    /\ UNCHANGED <<root, disk, clock, convs, idx, artFiles, pre, ret>>
    /\ UNCHANGED <<apiVars, cliVars, others>>

\* unlinkSync of conversation.json or metadata.json of cur
SaveUnlink ==
    /\ pc = "remove"
    /\ \E e \in curFiles \ {"artifacts"} :
        /\ curFiles' = curFiles \ {e}
        /\ disk' = [disk EXCEPT ![cur] =
               IF e = "conversation.json"
               THEN [@ EXCEPT !.conversation = <<>>]
               ELSE [@ EXCEPT !.metadata = <<>>]]
    /\ UNCHANGED <<root, clock, pc, convs, idx, files, cur, artFiles, pre, ret>>
    /\ UNCHANGED <<apiVars, cliVars, others>>

\* the recursive call on cur/artifacts: its readdirSync snapshot
SaveEnterArtifacts ==
    /\ pc = "remove"
    /\ "artifacts" \in curFiles
    /\ artFiles' = ArtifactNames(disk[cur])
    /\ pc' = "removeArtifacts"
    /\ UNCHANGED <<root, disk, clock, convs, idx, files, cur, curFiles, pre, ret>>
    /\ UNCHANGED <<apiVars, cliVars, others>>

\* unlinkSync of one artifact of cur
SaveUnlinkArtifact ==
    /\ pc = "removeArtifacts"
    /\ \E n \in artFiles :
        /\ artFiles' = artFiles \ {n}
        /\ disk' = [disk EXCEPT ![cur].artifacts[n] = <<>>]
    /\ UNCHANGED <<root, clock, pc, convs, idx, files, cur, curFiles, pre, ret>>
    /\ UNCHANGED <<apiVars, cliVars, others>>

\* rmdirSync of cur/artifacts
SaveRmdirArtifacts ==
    /\ pc = "removeArtifacts"
    /\ artFiles = {}
    /\ disk' = [disk EXCEPT ![cur].hasArtifacts = FALSE]
    /\ curFiles' = curFiles \ {"artifacts"}
    /\ pc' = "remove"
    /\ UNCHANGED <<root, clock, convs, idx, files, cur, artFiles, pre, ret>>
    /\ UNCHANGED <<apiVars, cliVars, others>>

\* rmdirSync of cur
SaveRmdir ==
    /\ pc = "remove"
    /\ curFiles = {}
    /\ disk' = RemoveDirectory(disk, cur)
    /\ cur' = 0
    /\ pc' = "clear"
    /\ UNCHANGED <<root, clock, convs, idx, files, curFiles, artFiles, pre, ret>>
    /\ UNCHANGED <<apiVars, cliVars, others>>

\* the clear loop is over: conversations.forEach starts
SaveClearEnd ==
    /\ pc = "clear"
    /\ files = {}
    /\ pc' = ForEachPc(1, convs)
    /\ ret' = IF convs = <<>> THEN Ret("save", "none", <<>>) ELSE ret
    /\ UNCHANGED <<root, disk, clock, convs, idx, files, cur, curFiles,
                   artFiles, pre>>
    /\ UNCHANGED <<apiVars, cliVars, others>>

SaveMkdir ==
    /\ pc = "mkdir"
    /\ disk' = Mkdir(disk, convs[idx].id)
    /\ pc' = "mkartifacts"
    /\ UNCHANGED <<root, clock, convs, idx, files, cur, curFiles, artFiles,
                   pre, ret>>
    /\ UNCHANGED <<apiVars, cliVars, others>>

SaveMkdirArtifacts ==
    /\ pc = "mkartifacts"
    /\ disk' = MkdirArtifacts(disk, convs[idx].id)
    /\ pc' = "conversation"
    /\ UNCHANGED <<root, clock, convs, idx, files, cur, curFiles, artFiles,
                   pre, ret>>
    /\ UNCHANGED <<apiVars, cliVars, others>>

SaveWriteConversation ==
    /\ pc = "conversation"
    /\ disk' = WriteConversation(disk, convs[idx])
    /\ pc' = "metadata"
    /\ UNCHANGED <<root, clock, convs, idx, files, cur, curFiles, artFiles,
                   pre, ret>>
    /\ UNCHANGED <<apiVars, cliVars, others>>

\* the metadata step: written, or the TypeError ends the save
SaveWriteMetadata ==
    /\ pc = "metadata"
    /\ IF MetadataThrows(convs[idx])
       THEN /\ pc' = "done"
            /\ ret' = Ret("save", "logged", <<>>)
            /\ UNCHANGED <<disk, idx>>
       ELSE /\ disk' = WriteMetadata(disk, convs[idx], clock)
            /\ idx' = idx + 1
            /\ pc' = ForEachPc(idx + 1, convs)
            /\ ret' = IF idx = Len(convs) THEN Ret("save", "none", <<>>)
                      ELSE ret
    /\ UNCHANGED <<root, clock, convs, files, cur, curFiles, artFiles, pre>>
    /\ UNCHANGED <<apiVars, cliVars, others>>

(* ------------------------- the other operations ----------------------- *)
\* a call other than saveChatHistory wrote: the save bookkeeping is cleared
ResetSave ==
    /\ pc' = "idle"
    /\ convs' = <<>>
    /\ idx' = 0
    /\ pre' = NoDisk
    /\ UNCHANGED <<files, cur, curFiles, artFiles>>

\* c goes to the end
SortInsertAppends(sorted, c) == Append(sorted, c)

\* insert c into a sequence ordered by (a, b) => b.id - a.id, after its equals
SortInsert(sorted, c) ==
    LET k == Cardinality({i \in 1..Len(sorted) : sorted[i].id >= c.id})
    IN  SubSeq(sorted, 1, k) \o <<c>> \o SubSeq(sorted, k + 1, Len(sorted))

RECURSIVE SortDescending(_)
\* conversations.sort((a, b) => b.id - a.id)
SortDescending(list) ==
    IF list = <<>> THEN <<>>
    ELSE SortInsert(SortDescending(SubSeq(list, 1, Len(list) - 1)),
                    list[Len(list)])

RECURSIVE ReadConversations(_, _)
\* conversationDirs.forEach: push each parsable conversation.json
ReadConversations(d, order) ==
    IF order = <<>> THEN <<>>
    ELSE LET dir == d[order[1]]
             rest == ReadConversations(d, SubSeq(order, 2, Len(order)))
         IN  IF dir.conversation = <<>> \/ ParseThrows(dir.conversation[1])
             THEN rest
             ELSE <<JSONparse(dir.conversation[1])>> \o rest

\* the bodies read from the entries of other names that pass the filter
ReadOthers(o) ==
    ReadConversations([n \in OtherNames |-> o[n].dir],
                      SelectSeq(OtherOrder, LAMBDA n : n \in ConversationOthers(o)))

\* the enumeration orders readdirSync may give for a set of directories
Enumerations(S) ==
    {o \in [1..Cardinality(S) -> S] : \A i, j \in DOMAIN o : i # j => o[i] # o[j]}

\* the comparator (a, b) => b.id - a.id throws a TypeError when it is handed
\* null; sort calls it on every element of an array of two or more
SortThrows(list) ==
    Len(list) >= 2 /\ \E i \in 1..Len(list) : IsNull(list[i])

\* loadChatHistory on storage d with the directories enumerated in order;
\* the outer catch returns [] when the sort throws
LoadResult(rootExists, d, order) ==
    IF ~rootExists THEN <<>>
    ELSE LET conversations == ReadConversations(d, order) \o ReadOthers(others)
         IN  IF SortThrows(conversations) THEN <<>>
             ELSE SortDescending(conversations)

\* "sort" when the outer catch of loadChatHistory ran
LoadError(rootExists, d, order) ==
    IF rootExists /\ SortThrows(ReadConversations(d, order) \o ReadOthers(others))
    THEN "sort"
    ELSE "none"

LoadChatHistory ==
    /\ Idle
    /\ \E order \in Enumerations(ConversationDirs(disk)) :
           ret' = Ret("load", LoadError(root, disk, order),
                      LoadResult(root, disk, order))
    /\ UNCHANGED <<root, disk, clock, pc, saveVars>>
    /\ UNCHANGED <<apiVars, cliVars, others>>

\* no artifacts directory is made
WithoutArtifactsDir(dir) == dir

\* createArtifactsDirectories on one directory
WithArtifactsDir(dir) ==
    IF dir.exists THEN [dir EXCEPT !.hasArtifacts = TRUE] ELSE dir

\* the backfill leaves lastModified as it is
WithDefaultProjectTypeOnly(dir, now) ==
    IF ~dir.exists \/ dir.metadata = <<>> \/ ParseThrows(dir.metadata[1])
    THEN dir
    ELSE LET metadata == JSONparse(dir.metadata[1])
         IN  IF ~Has(metadata, "projectType") \/ metadata.projectType = ""
             THEN [dir EXCEPT !.metadata = <<JSONstringify(
                      Assign(metadata, "projectType", "chat"))>>]
             ELSE dir

\* initializeDefaultProjectTypes on one directory
WithDefaultProjectType(dir, now) ==
    IF ~dir.exists \/ dir.metadata = <<>> \/ ParseThrows(dir.metadata[1])
    THEN dir
    ELSE LET metadata == JSONparse(dir.metadata[1])
         IN  IF ~Has(metadata, "projectType") \/ metadata.projectType = ""
             THEN [dir EXCEPT !.metadata = <<JSONstringify(
                      Assign(Assign(metadata, "projectType", "chat"),
                             "lastModified", now))>>]
             ELSE dir

\* the step of initChatHistory in which a filesystem call fails
InitFailures == {"none", "mkdir", "artifacts", "types", "load"}

\* the artifacts directories are made anew, without their files
ArtifactsBackfillEmpties(d, done) ==
    [i \in Ids |-> IF i \in done
                   THEN [WithArtifactsDir(d[i]) EXCEPT !.artifacts = NoArtifacts]
                   ELSE d[i]]

\* createArtifactsDirectories that got through the directories of done
\* before readdirSync, statSync or mkdirSync threw into its catch
ArtifactsBackfill(d, done) ==
    [i \in Ids |-> IF i \in done THEN WithArtifactsDir(d[i]) ELSE d[i]]

\* initializeDefaultProjectTypes that got through the directories of done
\* before readdirSync or statSync threw into its outer catch
TypesBackfill(d, done, now) ==
    [i \in Ids |-> IF i \in done THEN WithDefaultProjectType(d[i], now)
                   ELSE d[i]]

\* createArtifactsDirectories on the entries of other names
OthersArtifacts(o) ==
    [n \in OtherNames |->
        IF n \in ConversationOthers(o)
        THEN [o[n] EXCEPT !.dir = WithArtifactsDir(o[n].dir)] ELSE o[n]]

\* initializeDefaultProjectTypes on the entries of other names
OthersTypes(o, now) ==
    [n \in OtherNames |->
        IF n \in ConversationOthers(o)
        THEN [o[n] EXCEPT !.dir = WithDefaultProjectType(o[n].dir, now)]
        ELSE o[n]]

\* what the two backfills of initChatHistory leave of the entries of other
\* names when a filesystem call fails in step fail
OthersBackfilled(o, fail, now) ==
    IF fail = "artifacts" THEN {o, OthersArtifacts(o)}
    ELSE IF fail = "types"
    THEN {OthersArtifacts(o), OthersTypes(OthersArtifacts(o), now)}
    ELSE {OthersTypes(OthersArtifacts(o), now)}

\* the catch block lets the error through
InitCaughtRethrows == Ret("init", "thrown", <<>>)

\* the catch block of initChatHistory: log and return []
InitCaught == Ret("init", "mkdir", <<>>)

\* initChatHistory with a filesystem call failing in step fail ("none": no
\* call fails); err names the step that failed, "sort" when the load's sort
\* threw
InitChatHistory(fail) ==
    /\ Idle
    /\ \E done \in SUBSET ConversationDirs(disk),
          order \in Enumerations(ConversationDirs(disk)) :
        LET all == ConversationDirs(disk)
            withArtifacts ==
                ArtifactsBackfill(disk, IF fail = "artifacts" THEN done ELSE all)
            withTypes ==
                TypesBackfill(withArtifacts,
                              IF fail = "types" THEN done ELSE all, clock)
        IN  /\ fail \in {"artifacts", "types"} \/ done = all
            /\ IF fail = "mkdir"
               THEN /\ ~root
                    /\ UNCHANGED <<root, disk, others>>
                    /\ ret' = InitCaught
               ELSE /\ root' = TRUE
                    /\ disk' = withTypes
                    /\ others' \in OthersBackfilled(others, fail, clock)
                    /\ ret' = IF fail = "load" THEN Ret("init", "load", <<>>)
                              ELSE Ret("init",
                                       IF fail = "none"
                                       THEN LoadError(TRUE, withTypes, order)
                                       ELSE fail,
                                       LoadResult(TRUE, withTypes, order))
    /\ ResetSave
    /\ UNCHANGED clock
    /\ UNCHANGED <<apiVars, cliVars>>

Tags == {"chat", "recipe"}

\* the record is built anew from the two fields
UpdatedMetadataFresh(metadata, projectType, now) ==
    [projectType |-> projectType, lastModified |-> now]

\* metadata.projectType = projectType; metadata.lastModified = Date.now()
UpdatedMetadata(metadata, projectType, now) ==
    Assign(Assign(metadata, "projectType", projectType), "lastModified", now)

\* a missing metadata.json is created
UpdateResultCreates(d, id, projectType, now) ==
    IF ~d[id].exists THEN [disk |-> d, err |-> "notFound"]
    ELSE [disk |-> [d EXCEPT ![id].metadata = <<JSONstringify(
                       UpdatedMetadata(ExistingMetadata(d[id]),
                                       projectType, now))>>],
          err |-> "none"]

\* updateMetadataWithProjectType on storage d: the storage it leaves and
\* the error it rethrows ("notFound": one of the two 'not found' Errors,
\* "parseError": the SyntaxError of JSON.parse)
UpdateResult(d, id, projectType, now) ==
    IF ~d[id].exists \/ d[id].metadata = <<>>
    THEN [disk |-> d, err |-> "notFound"]
    ELSE IF ParseThrows(d[id].metadata[1])
    THEN [disk |-> d, err |-> "parseError"]
    ELSE [disk |-> [d EXCEPT ![id].metadata = <<JSONstringify(
                       UpdatedMetadata(JSONparse(d[id].metadata[1]),
                                       projectType, now))>>],
          err |-> "none"]

UpdateMetadataWithProjectType(id, projectType) ==
    /\ Idle
    /\ LET r == UpdateResult(disk, id, projectType, clock)
       IN  /\ disk' = r.disk
           /\ ret' = [RetFor("update", id, r.err) EXCEPT !.tag = projectType]
    /\ ResetSave
    /\ UNCHANGED <<root, clock>>
    /\ UNCHANGED <<apiVars, cliVars, others>>

\* only the files of the directory are removed
DeleteChatFileFilesOnly(id) ==
    /\ Idle
    /\ disk' = [disk EXCEPT ![id].conversation = <<>>, ![id].metadata = <<>>]
    /\ ret' = RetFor("delete", id, "none")
    /\ ResetSave
    /\ UNCHANGED <<root, clock>>
    /\ UNCHANGED <<apiVars, cliVars, others>>

\* existsSync(conversationPath), then removeDirectoryRecursive; on a path
\* that is a regular file readdirSync throws into the catch
DeleteChatFile(id) ==
    /\ Idle
    /\ IF id \in Ids
       THEN /\ disk' = RemoveDirectory(disk, id)
            /\ ret' = RetFor("delete", id, "none")
       ELSE /\ disk' = disk
            /\ ret' = RetFor("delete", id,
                             IF others[DirName(id)].kind = "file" THEN "logged"
                             ELSE "none")
    /\ ResetSave
    /\ UNCHANGED <<root, clock>>
    /\ UNCHANGED <<apiVars, cliVars, others>>

\* the payloads and type arguments handed to saveConversationArtifact
ArtifactData == {[a |-> 1]}
ArtifactTypes == {"json", "yaml"}

\* what writeFileSync stores for a payload of a supported type
ArtifactText(data, type) ==
    IF type = "json" THEN StringifyFlat(data) ELSE data

\* a file that is already there is not overwritten
ArtifactSavedKeepsFirst(d, id, name, data, type) ==
    LET made == MkdirArtifacts(Mkdir(d, id), id)
    IN  IF type \in {"json", "text", "binary"} /\ d[id].artifacts[name] = <<>>
        THEN [made EXCEPT ![id].artifacts[name] = <<ArtifactText(data, type)>>]
        ELSE made

\* saveConversationArtifact on storage d
ArtifactSaved(d, id, name, data, type) ==
    LET made == MkdirArtifacts(Mkdir(d, id), id)
    IN  IF type \in {"json", "text", "binary"}
        THEN [made EXCEPT ![id].artifacts[name] = <<ArtifactText(data, type)>>]
        ELSE made

SaveConversationArtifact(id, name, data, type) ==
    /\ Idle
    /\ root' = TRUE
    /\ disk' = ArtifactSaved(disk, id, name, data, type)
    /\ ret' = RetArtifact("saveArtifact", id, name, type,
                          IF type \in {"json", "text", "binary"} THEN "none"
                          ELSE "logged", <<data>>)
    /\ ResetSave
    /\ UNCHANGED clock
    /\ UNCHANGED <<apiVars, cliVars, others>>

\* the artifact is reported by an exception
ArtifactMissingThrows == [value |-> <<>>, err |-> "thrown"]

\* 'return null' when existsSync(artifactPath) is false
ArtifactMissing == [value |-> <<>>, err |-> "none"]

\* the catch block of loadConversationArtifact: log and return null
ArtifactCaught == [value |-> <<>>, err |-> "logged"]

\* loadConversationArtifact on storage d: the value returned (empty: null)
\* and "logged" when the catch block ran
LoadArtifactResult(d, id, name, type) ==
    IF d[id].artifacts[name] = <<>> THEN ArtifactMissing
    ELSE LET data == d[id].artifacts[name][1]
         IN  CASE type = "json" ->
                      IF ParseThrows(data) THEN ArtifactCaught
                      ELSE [value |-> <<ParseFlat(data)>>, err |-> "none"]
               [] type \in {"text", "binary"} ->
                      [value |-> <<data>>, err |-> "none"]
               [] OTHER -> ArtifactCaught

LoadConversationArtifact(id, name, type) ==
    /\ Idle
    /\ LET r == LoadArtifactResult(disk, id, name, type)
       IN  ret' = RetArtifact("loadArtifact", id, name, type, r.err, r.value)
    /\ UNCHANGED <<root, disk, clock, pc, saveVars>>
    /\ UNCHANGED <<apiVars, cliVars, others>>

\* the directory counts only when it holds a conversation.json
GetConversationArtifactsOfStored(d, id) ==
    IF d[id].hasArtifacts /\ d[id].conversation # <<>>
    THEN ArtifactNames(d[id]) ELSE {}

\* getConversationArtifacts on storage d
GetConversationArtifacts(d, id) ==
    IF d[id].hasArtifacts THEN ArtifactNames(d[id]) ELSE {}

\* the call: the names in the order readdirSync gives them
GetArtifacts(id) ==
    /\ Idle
    /\ \E order \in Enumerations(GetConversationArtifacts(disk, id)) :
           ret' = [RetFor("list", id, "none") EXCEPT !.list = order]
    /\ UNCHANGED <<root, disk, clock, pc, saveVars>>
    /\ UNCHANGED <<apiVars, cliVars, others>>

\* time passes between two calls
Tick ==
    /\ Idle
    /\ clock < MaxClock
    /\ clock' = clock + 1
    /\ UNCHANGED <<root, disk, pc, saveVars, ret>>
    /\ UNCHANGED <<apiVars, cliVars, others>>

(* --------------------------- specifications --------------------------- *)
\* the operations as single-writer calls on a filesystem that does not fail
Next ==
    \/ \E L \in ConvLists : SaveChatHistory(L)
    \/ LoadChatHistory
    \/ InitChatHistory("none")
    \/ \E id \in Ids, t \in Tags : UpdateMetadataWithProjectType(id, t)
    \/ \E id \in Ids : DeleteChatFile(id)
    \/ \E id \in Ids, n \in OneName, data \in ArtifactData, type \in ArtifactTypes :
           SaveConversationArtifact(id, n, data, type)

Spec == Init /\ [][Next]_vars

\* message lists that exercise the DataKnot command check
CmdNoSpace == <<"d","a","t","a","k","n","o","t",":",
                "s","t","a","r","t"," ","r","e","c","i","p","e">>
CmdExtra == <<"d","a","t","a","k","n","o","t",":"," ",
              "s","t","a","r","t"," ","r","e","c","i","p","e"," ","x">>
CmdInner == <<"d","a","t","a","k","n","o","t",":"," ",
              "s","t","a","r","t"," "," ","r","e","c","i","p","e">>
NoPrefix == <<"s","t","a","r","t"," ","r","e","c","i","p","e">>
SplitPrefix == <<"d","a","t","a","k","n","o","t"," ",":"," ",
                 "s","t","a","r","t"," ","r","e","c","i","p","e">>
LatePrefix == <<"h","i"," ","d","a","t","a","k","n","o","t",":"," ",
                "s","t","a","r","t"," ","r","e","c","i","p","e">>

CmdMessageLists ==
    {<<>>, <<User(Hi)>>, <<User(CmdStart)>>, <<User(CmdOther)>>,
     <<User(CmdNoSpace)>>, <<User(CmdExtra)>>, <<User(CmdInner)>>,
     <<User(NoPrefix)>>, <<User(SplitPrefix)>>, <<User(LatePrefix)>>,
     <<Assistant(CmdStart)>>,
     <<User(CmdStart), Assistant(Hi)>>, <<User(CmdStart), User(Hi)>>,
     <<User(Hi), User(CmdStart)>>, <<User(Hi), Assistant(CmdStart)>>,
     <<User(CmdStart), Assistant(Hi), Assistant(Hi)>>,
     <<User(Hi), User(CmdStart), Assistant(Hi)>>,
     <<User(CmdStart), Assistant(CmdStart), User(Hi)>>,
     <<Assistant(Hi), Assistant(CmdStart)>>}

CmdLists ==
    {<<Conv(i, m)>> : i \in Ids, m \in CmdMessageLists}
    \cup {<<ConvNoMessages(1), Conv(2, <<User(CmdStart)>>)>>,
          <<Conv(2, <<User(CmdStart)>>), ConvNoMessages(1)>>,
          <<Conv(1, <<User(CmdStart)>>), Conv(1, <<User(Hi)>>)>>,
          <<Conv(1, <<User(Hi)>>), Conv(1, <<User(CmdStart)>>)>>,
          <<Conv(1, <<User(CmdStart), Assistant(Hi)>>),
            Conv(2, <<User(CmdStart), User(Hi)>>)>>}

\* one conversation saved again and again with different messages
NextCmd ==
    \/ \E L \in CmdLists : SaveChatHistory(L)
    \/ LoadChatHistory
    \/ \E id \in Ids, t \in Tags : UpdateMetadataWithProjectType(id, t)
    \/ Tick

SpecCmd == Init /\ [][NextCmd]_vars

\* the lists saved step by step
StepConvs == {Conv(i, <<User(Hi)>>) : i \in Ids} \cup {ConvNoMessages(i) : i \in Ids}
StepLists == UNION {[1..n -> StepConvs] : n \in 0..MaxConvs}

\* saveChatHistory observed between its filesystem calls
NextSteps ==
    \/ \E L \in StepLists : SaveBegin(L)
    \/ SaveClearNext
    \/ SaveUnlink
    \/ SaveEnterArtifacts
    \/ SaveUnlinkArtifact
    \/ SaveRmdirArtifacts
    \/ SaveRmdir
    \/ SaveClearEnd
    \/ SaveMkdir
    \/ SaveMkdirArtifacts
    \/ SaveWriteConversation
    \/ SaveWriteMetadata
    \/ LoadChatHistory
    \/ \E id \in Ids, n \in OneName, data \in ArtifactData, type \in ArtifactTypes :
           SaveConversationArtifact(id, n, data, type)

SpecSteps == Init /\ [][NextSteps]_vars

\* the lists saved repeatedly while time passes
AgainConvs == {Conv(1, <<User(CmdStart)>>), Conv(1, <<User(Hi)>>),
               Conv(2, <<User(Hi)>>), ConvNoMessages(2)}
AgainLists == UNION {[1..n -> AgainConvs] : n \in 0..MaxConvs}

\* saveChatHistory called again and again, at different times
NextAgain ==
    \/ \E L \in AgainLists : SaveBegin(L)
    \/ SaveClearNext
    \/ SaveUnlink
    \/ SaveEnterArtifacts
    \/ SaveUnlinkArtifact
    \/ SaveRmdirArtifacts
    \/ SaveRmdir
    \/ SaveClearEnd
    \/ SaveMkdir
    \/ SaveMkdirArtifacts
    \/ SaveWriteConversation
    \/ SaveWriteMetadata
    \/ \E n \in OneName, data \in ArtifactData :
           SaveConversationArtifact(1, n, data, "json")
    \/ Tick

SpecAgain == Init /\ [][NextAgain]_vars

\* a storage root as earlier versions, other programs or an interrupted
\* write may have left it
InitStore ==
    /\ \/ root = FALSE /\ disk = NoDisk
       \/ root = TRUE
          /\ disk \in [Ids -> {NoDir, CorruptDir} \cup
                 UNION {{LegacyDir(i), CustomDir(i), NullDir(i)} : i \in Ids}]
          /\ \A i \in Ids : disk[i].exists =>
                 disk[i] \in {LegacyDir(i), CustomDir(i), NullDir(i), CorruptDir}
    /\ clock = 0
    /\ pc = "idle"
    /\ convs = <<>>
    /\ idx = 0
    /\ files = {}
    /\ cur = 0
    /\ curFiles = {}
    /\ artFiles = {}
    /\ pre = NoDisk
    /\ ret = Ret("none", "none", <<>>)
    /\ NoCall
    /\ NoChat
    /\ others = NoOthers

\* the calls that work on what is stored; initChatHistory on a filesystem
\* whose calls may fail
NextStore ==
    \/ LoadChatHistory
    \/ \E fail \in InitFailures : InitChatHistory(fail)
    \/ \E id \in Ids, t \in Tags : UpdateMetadataWithProjectType(id, t)
    \/ \E id \in Ids : DeleteChatFile(id)
    \/ \E id \in Ids, n \in OneName, data \in ArtifactData, type \in ArtifactTypes :
           SaveConversationArtifact(id, n, data, type)

SpecStore == InitStore /\ [][NextStore]_vars

\* payload and type of the artifact saves: two objects as json, the text }{
\* as text, an object under the unsupported type yaml
ArtifactCalls ==
    <<<<[a |-> 1], "json">>, <<[a |-> 2], "json">>,
      <<CorruptText, "text">>, <<[a |-> 1], "yaml">>>>

\* a storage root without artifacts: no root, or each conversation stored by
\* an earlier version or not at all
InitArtifacts ==
    /\ \/ root = FALSE /\ disk = NoDisk
       \/ root = TRUE /\ disk \in [Ids -> {NoDir} \cup {LegacyDir(i) : i \in Ids}]
                      /\ \A i \in Ids : disk[i].exists => disk[i] = LegacyDir(i)
    /\ clock = 0
    /\ pc = "idle"
    /\ convs = <<>>
    /\ idx = 0
    /\ files = {}
    /\ cur = 0
    /\ curFiles = {}
    /\ artFiles = {}
    /\ pre = NoDisk
    /\ ret = Ret("none", "none", <<>>)
    /\ NoCall
    /\ NoChat
    /\ others = NoOthers

\* the type arguments of the artifact loads
LoadTypes == {"json", "text", "binary", "yaml"}

\* the artifact store, with the calls that remove directories
NextArtifacts ==
    \/ \E id \in Ids, n \in Names, k \in 1..Len(ArtifactCalls) :
           SaveConversationArtifact(id, n, ArtifactCalls[k][1],
                                    ArtifactCalls[k][2])
    \/ \E id \in Ids, n \in Names, type \in LoadTypes :
           LoadConversationArtifact(id, n, type)
    \/ \E id \in Ids : GetArtifacts(id)
    \/ \E id \in Ids : DeleteChatFile(id)
    \/ \E L \in {<<>>, <<Conv(1, <<User(Hi)>>)>>} : SaveChatHistory(L)

SpecArtifacts == InitArtifacts /\ [][NextArtifacts]_vars

\* the calls made for one conversation, and the loads, on a storage root as
\* it may be found
NextFrame ==
    \/ LoadChatHistory
    \/ \E fail \in InitFailures : InitChatHistory(fail)
    \/ \E id \in Ids, t \in Tags : UpdateMetadataWithProjectType(id, t)
    \/ \E id \in Ids : DeleteChatFile(id)
    \/ \E id \in Ids, n \in OneName, data \in ArtifactData, type \in ArtifactTypes :
           SaveConversationArtifact(id, n, data, type)
    \/ \E id \in Ids, n \in OneName, type \in LoadTypes :
           LoadConversationArtifact(id, n, type)
    \/ \E id \in Ids : GetArtifacts(id)

SpecFrame == InitStore /\ [][NextFrame]_vars

\* what may lie in chat_history/ beside the conversation directories: a
\* regular file named chat_3, a directory bak, empty or with the files of a
\* conversation directory, and a regular file n.txt
RootOthers ==
    {o \in [OtherNames -> {NoEntry, FileEntry, DirEntry(BackupDir),
                           DirEntry(EmptyDir)}] :
        /\ o[FileName] \in {NoEntry, FileEntry}
        /\ o[BackupName] \in {NoEntry, DirEntry(BackupDir), DirEntry(EmptyDir)}
        /\ o[PlainName] \in {NoEntry, FileEntry}}

\* a storage root with conversation directories and entries of other names
InitRoot ==
    /\ root = TRUE
    /\ disk \in [Ids -> {NoDir, CorruptDir} \cup
                  UNION {{LegacyDir(i), CustomDir(i)} : i \in Ids}]
    /\ disk[1] \in {LegacyDir(1), CustomDir(1)}
    /\ disk[2] \in {NoDir, LegacyDir(2), CorruptDir}
    /\ others \in RootOthers
    /\ clock = 0
    /\ pc = "idle"
    /\ convs = <<>>
    /\ idx = 0
    /\ files = {}
    /\ cur = 0
    /\ curFiles = {}
    /\ artFiles = {}
    /\ pre = NoDisk
    /\ ret = Ret("none", "none", <<>>)
    /\ NoCall
    /\ NoChat

RootLists == {<<>>, <<Conv(1, <<User(Hi)>>)>>, <<Conv(2, <<User(Hi)>>)>>}

\* the calls that enumerate chat_history/ or address one of its paths
NextRoot ==
    \/ \E L \in RootLists : SaveChatHistory(L)
    \/ LoadChatHistory
    \/ \E fail \in InitFailures : InitChatHistory(fail)
    \/ \E id \in Ids \cup {FileId} : DeleteChatFile(id)

SpecRoot == InitRoot /\ [][NextRoot]_vars

\* conversations of no, one and two messages, and one without messages
LedgerConvs ==
    UNION {{Conv(i, <<>>), Conv(i, <<User(CmdStart)>>),
            Conv(i, <<User(Hi), Assistant(Hi)>>)} : i \in Ids}

\* the lists saved while the records are watched: each conversation alone,
\* two together, and one followed by an element of its id without messages
LedgerLists ==
    {<<>>} \cup {<<c>> : c \in LedgerConvs}
        \cup {<<Conv(1, <<>>), Conv(2, <<User(Hi), Assistant(Hi)>>)>>,
              <<Conv(1, <<User(Hi), Assistant(Hi)>>), ConvNoMessages(1)>>}

\* every operation that writes to the storage, while time passes
NextLedger ==
    \/ \E L \in LedgerLists : SaveChatHistory(L)
    \/ InitChatHistory("none")
    \/ \E id \in Ids, t \in Tags : UpdateMetadataWithProjectType(id, t)
    \/ \E id \in Ids : DeleteChatFile(id)
    \/ \E id \in Ids, n \in OneName, data \in ArtifactData, type \in ArtifactTypes :
           SaveConversationArtifact(id, n, data, type)
    \/ Tick

SpecLedger == Init /\ [][NextLedger]_vars

(* ----------------------------- API server ----------------------------- *)
\* longest conversationBuffer handed to sendMessageToAPI
MaxBuffer == 2

\* the separator of join('\n\n')
Sep == <<"\n", "\n">>

\* a message content that itself holds a blank line and a role label
Tricky == <<"\n", "\n", "U", "s", "e", "r", ":", " ">>

\* msg.role === 'user' ? 'User' : 'AI', every role but user taken for AI
RoleLabelOfAssistant(role) ==
    IF role = "assistant" THEN <<"A", "I">> ELSE <<"U", "s", "e", "r">>

\* msg.role === 'user' ? 'User' : 'AI'
RoleLabel(role) ==
    IF role = "user" THEN <<"U", "s", "e", "r">> ELSE <<"A", "I">>

RECURSIVE join(_, _)
\* Array.prototype.join
join(parts, sep) ==
    IF parts = <<>> THEN <<>>
    ELSE IF Len(parts) = 1 THEN parts[1]
    ELSE parts[1] \o sep \o join(Tail(parts), sep)

\* conversationBuffer.map(msg => `${label}: ${msg.content}`).join('\n\n')
contextMessages(conversationBuffer) ==
    join([i \in 1..Len(conversationBuffer) |->
              RoleLabel(conversationBuffer[i].role) \o <<":", " ">>
                  \o conversationBuffer[i].content],
         Sep)

\* the prompt sendMessageToAPI builds
fullPrompt(messageContent, conversationBuffer) ==
    IF Len(conversationBuffer) > 0
    THEN contextMessages(conversationBuffer) \o Sep
             \o <<"U", "s", "e", "r", ":", " ">> \o messageContent
    ELSE messageContent

ClaudeModel == "claude-sonnet-4-5"

\* every key but null counts as supplied
TruthyNotNull(claudeApiKey) == claudeApiKey # <<>>

\* an API key: <<>> is null, <<"">> the empty string
Truthy(claudeApiKey) == claudeApiKey # <<>> /\ claudeApiKey # <<"">>

\* a request as http.request sends it: body is <<>> when nothing is written,
\* apiKey is the claude-api-key header, <<>> when the header is not set
ChatRequest(prompt, model, reset, apiKey) ==
    [path |-> "/chat",
     body |-> <<[prompt |-> prompt, model |-> model,
                 reset_conversation |-> reset]>>,
     apiKey |-> apiKey]

ResetModelRequest == [path |-> "/reset-model", body |-> <<>>, apiKey |-> <<>>]

\* the request of sendMessageToAPI
SendRequest(messageContent, conversationBuffer, model, claudeApiKey) ==
    ChatRequest(fullPrompt(messageContent, conversationBuffer), model, FALSE,
                IF model = ClaudeModel /\ Truthy(claudeApiKey)
                THEN claudeApiKey ELSE <<>>)

\* 'SYSTEM: You are starting a completely new conversation. ...'
resetPrompt == <<"S", "Y", "S", "T", "E", "M", ":">>

Pending == [state |-> "pending", value |-> <<>>, error |-> "none"]
Resolved(value) == [state |-> "resolved", value |-> value, error |-> "none"]

\* a reject that leaves the promise pending
RejectedNever(error) == Pending

Rejected(error) == [state |-> "rejected", value |-> <<>>, error |-> error]

\* resolve and reject of a promise that takes every call
SettleAgain(promise, result) == result

\* resolve and reject of a promise: only the first call has an effect
Settle(promise, result) ==
    IF promise.state = "pending" THEN result ELSE promise

\* the 'end' handler of sendMessageToAPI with a catch that resolves
EndResultSwallows(body) ==
    IF ParseThrows(body) THEN Resolved(<<>>)
    ELSE LET data == ParseFlat(body)
         IN  IF IsNull(data) THEN Resolved(<<>>)
             ELSE IF Has(data, "response") THEN Resolved(<<data.response>>)
             ELSE Resolved(<<>>)

\* the 'end' handler of sendMessageToAPI: JSON.parse, then
\* resolve(data.response); reading .response of null throws inside the try
EndResult(body) ==
    IF ParseThrows(body)
    THEN Rejected("Invalid JSON response from server")
    ELSE LET data == ParseFlat(body)
         IN  IF IsNull(data) THEN Rejected("Invalid JSON response from server")
             ELSE IF Has(data, "response") THEN Resolved(<<data.response>>)
             ELSE Resolved(<<>>)

\* no request of a call to the API server is awaited
NoRequest == call \notin {"chat", "resetChat", "resetModel"}

SendMessageToAPI(messageContent, conversationBuffer, model, claudeApiKey) ==
    /\ NoRequest
    /\ call' = "chat"
    /\ args' = <<messageContent, conversationBuffer, model, claudeApiKey>>
    /\ sent' = <<SendRequest(messageContent, conversationBuffer, model,
                             claudeApiKey)>>
    /\ responseData' = <<>>
    /\ outcome' = Pending
    /\ logged' = {}
    /\ UNCHANGED <<root, disk, others, clock, pc, saveVars, ret>>
    /\ UNCHANGED cliVars

\* res.on('end') of sendMessageToAPI, before or after the request's 'error'
SendEnd(body) ==
    /\ call \in {"chat", "failed"}
    /\ call' = IF call = "chat" THEN "ended" ELSE "closed"
    /\ responseData' = <<body>>
    /\ outcome' = Settle(outcome, EndResult(body))
    /\ UNCHANGED <<root, disk, others, clock, pc, saveVars, ret, args, sent, logged>>
    /\ UNCHANGED cliVars

\* req.on('error') of sendMessageToAPI, before or after the response's 'end'
SendError ==
    /\ call \in {"chat", "ended"}
    /\ call' = IF call = "chat" THEN "failed" ELSE "closed"
    /\ outcome' = Settle(outcome, Rejected("transport"))
    /\ UNCHANGED <<root, disk, others, clock, pc, saveVars, ret, args, sent,
                   responseData, logged>>
    /\ UNCHANGED cliVars

ResetAIMemory(model) ==
    /\ NoRequest
    /\ call' = "resetChat"
    /\ args' = <<model>>
    /\ sent' = <<ChatRequest(resetPrompt, model, TRUE, <<>>)>>
    /\ responseData' = <<>>
    /\ outcome' = Pending
    /\ logged' = {}
    /\ UNCHANGED <<root, disk, others, clock, pc, saveVars, ret>>
    /\ UNCHANGED cliVars

\* res.on('end') of the /chat request: the first await returns and the
\* /reset-model request is sent
ResetChatEnd ==
    /\ call = "resetChat"
    /\ call' = "resetModel"
    /\ sent' = Append(sent, ResetModelRequest)
    /\ UNCHANGED <<root, disk, others, clock, pc, saveVars, ret, args, responseData,
                   outcome, logged>>
    /\ UNCHANGED cliVars

\* req.on('error') of the /chat request: the first await throws into the
\* outer catch, which logs; the async function returns
ResetChatError ==
    /\ call = "resetChat"
    /\ call' = "returned"
    /\ logged' = logged \cup {"/chat"}
    /\ outcome' = Settle(outcome, Resolved(<<>>))
    /\ UNCHANGED <<root, disk, others, clock, pc, saveVars, ret, args, sent,
                   responseData>>
    /\ UNCHANGED cliVars

\* res.on('end') of the /reset-model request
ResetModelEnd ==
    /\ call = "resetModel"
    /\ call' = "returned"
    /\ outcome' = Settle(outcome, Resolved(<<>>))
    /\ UNCHANGED <<root, disk, others, clock, pc, saveVars, ret, args, sent,
                   responseData, logged>>
    /\ UNCHANGED cliVars

\* req.on('error') of the /reset-model request: the inner catch logs
ResetModelError ==
    /\ call = "resetModel"
    /\ call' = "returned"
    /\ logged' = logged \cup {"/reset-model"}
    /\ outcome' = Settle(outcome, Resolved(<<>>))
    /\ UNCHANGED <<root, disk, others, clock, pc, saveVars, ret, args, sent,
                   responseData>>
    /\ UNCHANGED cliVars

Roles == {"user", "assistant", "system"}
BufferMessages ==
    {[role |-> r, content |-> Hi] : r \in Roles} \cup {User(Tricky)}
Buffers == UNION {[1..n -> BufferMessages] : n \in 0..MaxBuffer}
NewMessages == {Hi, <<>>}
Models == {"mistral:latest", ClaudeModel}
ApiKeys == {<<>>, <<"">>, <<"sk-ant">>}

\* the calls of sendMessageToAPI: every message and buffer with the default
\* model and key, and every model and key with the message 'hi'
SendCalls ==
    {<<m, b, "mistral:latest", <<>>>> : m \in NewMessages, b \in Buffers}
        \cup {<<Hi, <<>>, model, key>> : model \in Models, key \in ApiKeys}

\* the response bodies: {"response": "hi"}, {"error": "hi"}, {}, a text that
\* is not JSON, and the text null
ResponseBodies ==
    <<<<<<"response", Hi>>>>, <<<<"error", Hi>>>>, <<>>, CorruptText, NullText>>

InitGateway ==
    /\ root = FALSE
    /\ disk = NoDisk
    /\ clock = 0
    /\ pc = "idle"
    /\ convs = <<>>
    /\ idx = 0
    /\ files = {}
    /\ cur = 0
    /\ curFiles = {}
    /\ artFiles = {}
    /\ pre = NoDisk
    /\ ret = Ret("none", "none", <<>>)
    /\ NoCall
    /\ NoChat
    /\ others = NoOthers

\* the calls to the API server and the events of their requests
NextGateway ==
    \/ \E c \in SendCalls : SendMessageToAPI(c[1], c[2], c[3], c[4])
    \/ \E k \in 1..Len(ResponseBodies) : SendEnd(ResponseBodies[k])
    \/ SendError
    \/ \E model \in Models : ResetAIMemory(model)
    \/ ResetChatEnd
    \/ ResetChatError
    \/ ResetModelEnd
    \/ ResetModelError

SpecGateway == InitGateway /\ [][NextGateway]_vars

\* an event of a request that is awaited: its response ends or it fails
RequestEnds ==
    \/ \E k \in 1..Len(ResponseBodies) : SendEnd(ResponseBodies[k])
    \/ SendError
    \/ ResetChatEnd
    \/ ResetChatError
    \/ ResetModelEnd
    \/ ResetModelError

\* the API server calls when every request ends, with a complete response
\* or with an error
SpecGatewayLive == SpecGateway /\ WF_vars(RequestEnds)

(* ------------------------------- claims ------------------------------- *)
IdsOf(L) == {L[k].id : k \in 1..Len(L)}

\* every element is a Conversation: it has its message sequence
AllConversations(L) == \A k \in 1..Len(L) : Has(L[k], "messages")

\* the identifiers, being primary keys, are distinct
DistinctIds(L) == \A j, k \in 1..Len(L) : j # k => L[j].id # L[k].id

WellFormed(L) == AllConversations(L) /\ DistinctIds(L)

\* the step-by-step saveChatHistory ends in the storage and with the outcome
\* that SaveResult computes for the whole call
SaveStepsAgree ==
    (pc = "done" /\ ret.op = "save") =>
        /\ disk = SaveResult(pre, convs, clock).disk
        /\ ret.err = SaveResult(pre, convs, clock).err

\* the classification stored for a directory, "" when it has none
StoredType(dir) ==
    IF dir.metadata = <<>> \/ ParseThrows(dir.metadata[1]) THEN ""
    ELSE LET m == JSONparse(dir.metadata[1])
         IN  IF Has(m, "projectType") THEN m.projectType ELSE ""

\* the value of the caller-defined field foo, <<>> when there is none
StoredFoo(dir) ==
    IF dir.metadata = <<>> \/ ParseThrows(dir.metadata[1]) THEN <<>>
    ELSE LET m == JSONparse(dir.metadata[1])
         IN  IF Has(m, "foo") THEN <<m.foo>> ELSE <<>>

\* the conversation has a user-role message
HasUserMessage(c) == \E i \in 1..Len(c.messages) : c.messages[i].role = "user"

\* the conversation has a user-role message and its most recent one is the
\* start-recipe directive, in the words of the claims
TrailingStartRecipe(c) ==
    LET users == {i \in 1..Len(c.messages) : c.messages[i].role = "user"}
    IN  /\ users # {}
        /\ LET last == CHOOSE i \in users : \A j \in users : j <= i
               text == toLowerCase(trim(c.messages[last].content))
           IN  /\ Len(text) >= Len(DataKnotPrefix)
               /\ SubSeq(text, 1, Len(DataKnotPrefix)) = DataKnotPrefix
               /\ trim(SubSeq(text, Len(DataKnotPrefix) + 1, Len(text)))
                      = StartRecipe

\* C1: a loadChatHistory that follows saveChatHistory(L), L a list of
\* conversations with distinct identifiers, returns exactly the conversations
\* of L: as many, none missing, none added, none altered.
C1_RoundTrip ==
    (pc = "done" /\ ret.op = "load" /\ WellFormed(convs)) =>
        /\ Len(ret.list) = Len(convs)
        /\ \A k \in 1..Len(convs) :
               \E j \in 1..Len(ret.list) : ret.list[j] = convs[k]

C1_Witness ==
    /\ pc = "done" /\ ret.op = "load" /\ WellFormed(convs)
    /\ Len(convs) = 2 /\ Len(ret.list) = 2
    /\ \E k \in 1..2 : TrailingStartRecipe(convs[k])

\* C2: when saveChatHistory(L) has returned, L a list of conversations, the
\* conversation directories are exactly those of the identifiers in L, and a
\* following loadChatHistory returns exactly those identifiers.
C2_ExactDirectories ==
    (pc = "done" /\ AllConversations(convs)) =>
        /\ {i \in Ids : disk[i].exists} = IdsOf(convs)
        /\ ret.op = "load" => IdsOf(ret.list) = IdsOf(convs)

\* a directory of the previous generation that held only artifacts is gone
C2_Witness ==
    /\ pc = "done" /\ AllConversations(convs) /\ convs # <<>>
    /\ \E i \in Ids \ IdsOf(convs) :
           /\ pre[i].exists /\ pre[i].conversation = <<>>
           /\ pre[i].artifacts # NoArtifacts
           /\ ~disk[i].exists

\* C3: a caller-defined field foo of the stored metadata record is still
\* there, with its value, after the conversation is saved again.
C3_ExtraFieldPreserved ==
    (pc = "done" /\ WellFormed(convs)) =>
        \A i \in IdsOf(convs) :
            StoredFoo(pre[i]) # <<>> => StoredFoo(disk[i]) = StoredFoo(pre[i])

\* C4: a stored classification t is still t after saveChatHistory(L) with
\* the conversation in L and no start-recipe directive in its trailing user
\* message.
C4_ClassificationPreserved ==
    (pc = "done" /\ WellFormed(convs)) =>
        \A k \in 1..Len(convs) :
            (StoredType(pre[convs[k].id]) # "" /\ ~TrailingStartRecipe(convs[k]))
                => StoredType(disk[convs[k].id]) = StoredType(pre[convs[k].id])

\* C5: an artifact saved for a conversation is still stored, with its
\* payload, after saveChatHistory calls whose lists contain the conversation.
C5_ArtifactsSurviveSave ==
    (pc = "done" /\ WellFormed(convs)) =>
        \A i \in IdsOf(convs), n \in Names :
            pre[i].artifacts[n] # <<>> => disk[i].artifacts[n] = pre[i].artifacts[n]

\* C6: between the filesystem calls of saveChatHistory no conversation
\* directory exists without its metadata file (directories that had none
\* when the call began set aside).
C6_NoDirectoryWithoutMetadata ==
    pc \notin {"idle", "done"} =>
        \A i \in Ids :
            (disk[i].exists /\ (pre[i].metadata # <<>> \/ ~pre[i].exists))
                => disk[i].metadata # <<>>

\* the delete phase is over
AfterClear ==
    \/ pc = "clear" /\ files = {}
    \/ pc \in {"mkdir", "mkartifacts", "conversation", "metadata"}

\* the forEach has not yet reached a conversation with the identifier of L[k]
NotYetWritten(k) ==
    \A j \in 1..Len(convs) :
        convs[j].id = convs[k].id =>
            \/ pc = "clear"
            \/ j > idx
            \/ j = idx /\ pc = "mkdir"

\* C7: after the delete phase of saveChatHistory and until the forEach
\* reaches it, a conversation of the supplied list has no directory on disk
\* and a loadChatHistory run there does not return it, stored before or not.
C7_LostBetweenPhases ==
    \A k \in 1..Len(convs) :
        (AfterClear /\ NotYetWritten(k)) =>
            /\ ~disk[convs[k].id].exists
            /\ \A order \in Enumerations({i \in Ids : disk[i].exists}) :
                   convs[k].id \notin IdsOf(LoadResult(root, disk, order))

\* a conversation that was stored and loadable before the call is gone
C7_Witness ==
    \E k \in 1..Len(convs) :
        /\ AfterClear /\ NotYetWritten(k)
        /\ pre[convs[k].id].conversation # <<>>
        /\ convs[k].id \in IdsOf(LoadResult(TRUE, pre, <<convs[k].id>>))
        /\ ~disk[convs[k].id].exists

\* C8: when one conversation of the list cannot be written, every other
\* conversation of the list is still written with its body and metadata.
C8_OthersStillWritten ==
    (pc = "done" /\ ret.op = "save"
        /\ DistinctIds(convs)) =>
        \A k \in 1..Len(convs) :
            Has(convs[k], "messages") =>
                /\ disk[convs[k].id].conversation = <<JSONstringify(convs[k])>>
                /\ disk[convs[k].id].metadata # <<>>

\* C9: a conversation persisted by saveChatHistory (the forEach got through
\* it) whose most recent user message is the start-recipe directive has
\* classification recipe in the metadata written.
C9_StartRecipeSetsRecipe ==
    (pc = "done" /\ ret.op = "save") =>
        \A k \in 1..Len(convs) :
            (/\ \A j \in 1..k : Has(convs[j], "messages")
             /\ TrailingStartRecipe(convs[k]))
                => StoredType(disk[convs[k].id]) = "recipe"

\* the directive in mixed case with padding, over a record that said chat
C9_Witness ==
    /\ pc = "done" /\ ret.op = "save" /\ Len(convs) = 1
    /\ convs[1].messages = <<User(CmdStart)>>
    /\ StoredType(disk[convs[1].id]) = "recipe"

\* C10: saving a conversation whose most recent user message is not the
\* start-recipe directive (another token after the prefix, or no prefix)
\* raises no error and leaves the stored classification as it was before
\* the save.
C10_OtherMessagesKeepClassification ==
    [][(pc' = "done" /\ ret'.op = "save") =>
          \A k \in 1..Len(convs') :
              (/\ Has(convs'[k], "messages")
               /\ HasUserMessage(convs'[k])
               /\ ~TrailingStartRecipe(convs'[k])
               /\ StoredType(disk[convs'[k].id]) # "")
                  => /\ ret'.err = "none"
                     /\ StoredType(disk'[convs'[k].id])
                            = StoredType(disk[convs'[k].id])]_vars

\* the forEach of the last saveChatHistory got through convs[k]
Persisted(k) == \A j \in 1..k : Has(convs[j], "messages")

\* no other element of the list carries the identifier of convs[k]
OnlyOnce(k) == \A j \in 1..Len(convs) : convs[j].id = convs[k].id => j = k

\* C11: the command check looks at the most recent user-role message only.
\* For a conversation persisted by saveChatHistory the classification written
\* is recipe exactly when that message is the start-recipe directive:
\* assistant messages after it do not hide it, an earlier user directive
\* followed by a later user message without one leaves chat, and a
\* conversation without a user-role message is written as chat.
C11_OnlyLastUserMessage ==
    (pc = "done" /\ ret.op = "save") =>
        \A k \in 1..Len(convs) :
            (Persisted(k) /\ OnlyOnce(k)) =>
                /\ StoredType(disk[convs[k].id]) =
                       IF TrailingStartRecipe(convs[k]) THEN "recipe" ELSE "chat"
                /\ ~HasUserMessage(convs[k])
                       => StoredType(disk[convs[k].id]) = "chat"

\* one save with the directive followed by an assistant message (recipe) and
\* the directive followed by a later user message (chat)
C11_Witness ==
    /\ pc = "done" /\ ret.op = "save"
    /\ convs = <<Conv(1, <<User(CmdStart), Assistant(Hi)>>),
                 Conv(2, <<User(CmdStart), User(Hi)>>)>>
    /\ StoredType(disk[1]) = "recipe"
    /\ StoredType(disk[2]) = "chat"

\* the storage when the call began is what saveChatHistory(convs) leaves,
\* run at some earlier time
SavedBefore == \E t \in 0..clock : pre = SaveResult(NoDisk, convs, t).disk

\* a directory without the lastModified field of its metadata record
SansLastModified(dir) ==
    [dir EXCEPT !.metadata =
        IF @ = <<>> THEN <<>>
        ELSE <<SelectSeq(@[1], LAMBDA p : p[1] # "lastModified")>>]

\* C12: saveChatHistory(L) run on the storage an earlier saveChatHistory(L)
\* left gives every directory the same body, classification and metadata
\* fields other than lastModified as the first call did.
C12_PersistTwice ==
    (pc = "done" /\ ret.op = "save" /\ SavedBefore) =>
        \A i \in Ids : SansLastModified(disk[i]) = SansLastModified(pre[i])

\* the second call ran later than the first and wrote the directive's recipe
C12_Witness ==
    /\ pc = "done" /\ ret.op = "save" /\ SavedBefore
    /\ disk # pre
    /\ \E k \in 1..Len(convs) :
           /\ Persisted(k) /\ TrailingStartRecipe(convs[k])
           /\ StoredType(pre[convs[k].id]) = "recipe"
           /\ StoredType(disk[convs[k].id]) = "recipe"

\* C13: after initChatHistory returns, no filesystem call having failed,
\* every conversation directory has a metadata record with a classification,
\* a directory without a metadata file included (one whose metadata file is
\* there but does not parse set aside).
C13_MetadataAfterInit ==
    (ret.op = "init" /\ ret.err = "none") =>
        \A i \in Ids :
            (disk[i].exists
                /\ (disk[i].metadata = <<>> \/ ~ParseThrows(disk[i].metadata[1])))
                    => StoredType(disk[i]) # ""

\* C14: every conversation directory has its artifacts directory when
\* initChatHistory has returned and when saveChatHistory has returned, where
\* each conversation the forEach reached has its directory; after
\* saveConversationArtifact the conversation named has both.
C14_ArtifactsDirectory ==
    /\ ret.op = "init" => \A i \in Ids : disk[i].exists => disk[i].hasArtifacts
    /\ (pc = "done" /\ ret.op = "save") =>
           /\ \A i \in Ids : disk[i].exists => disk[i].hasArtifacts
           /\ \A k \in 1..Len(convs) :
                  (\A j \in 1..(k - 1) : Has(convs[j], "messages")) =>
                      /\ disk[convs[k].id].exists
                      /\ disk[convs[k].id].hasArtifacts
    /\ ret.op = "saveArtifact" =>
           disk[ret.id].exists /\ disk[ret.id].hasArtifacts

\* initChatHistory gave an unparsable directory and a legacy directory their
\* artifacts directories
C14_Witness ==
    /\ ret.op = "init"
    /\ disk[1] = [CorruptDir EXCEPT !.hasArtifacts = TRUE]
    /\ disk[2].exists /\ disk[2].hasArtifacts /\ disk[2].artifacts = NoArtifacts
    /\ StoredType(disk[2]) = "chat"

\* C15: initChatHistory never throws, whichever of its steps meets a failing
\* filesystem call, and returns the empty list when its own catch ran (root
\* creation failed) or the load failed.
C15_InitNeverRaises ==
    ret.op = "init" =>
        /\ ret.err \in InitFailures \cup {"sort"}
        /\ ret.err \in {"mkdir", "load", "sort"} => ret.list = <<>>

\* the root could not be created
C15_Witness ==
    ret.op = "init" /\ ret.err = "mkdir" /\ ~root /\ ret.list = <<>>

\* the directory holds a conversation body that parses to a conversation
WellFormedBody(dir) ==
    /\ dir.conversation # <<>>
    /\ ~ParseThrows(dir.conversation[1])
    /\ ~IsNull(JSONparse(dir.conversation[1]))

\* C16: loadChatHistory returns the conversation of every directory that
\* holds a well-formed body, whatever the other directories hold.
C16_LoadSkipsUnusable ==
    ret.op = "load" =>
        \A i \in Ids :
            WellFormedBody(disk[i]) =>
                \E j \in 1..Len(ret.list) :
                    ret.list[j] = JSONparse(disk[i].conversation[1])

\* C17: the list returned by loadChatHistory and by initChatHistory is in
\* descending order of id: no element is followed by one with a greater id.
C17_DescendingOrder ==
    ret.op \in {"load", "init"} =>
        \A j \in 1..(Len(ret.list) - 1) : ret.list[j].id >= ret.list[j + 1].id

C17_Witness ==
    /\ ret.op = "load" /\ Len(ret.list) = 2
    /\ ret.list[1].id = 2 /\ ret.list[2].id = 1

\* C18: deleteChatFile(id) leaves no directory of id: a loadChatHistory
\* then does not return id and getConversationArtifacts(id) is empty; it
\* throws nothing, and without a directory of id it changes nothing.
C18_DeleteRemovesTree ==
    [][ret'.op = "delete" =>
          /\ ~disk'[ret'.id].exists
          /\ \A order \in Enumerations(ConversationDirs(disk')) :
                 \A c \in {LoadResult(root', disk', order)[j] :
                              j \in 1..Len(LoadResult(root', disk', order))} :
                     IsNull(c) \/ c.id # ret'.id
          /\ GetConversationArtifacts(disk', ret'.id) = {}
          /\ ret'.err = "none"
          /\ ~disk[ret'.id].exists => (disk' = disk /\ root' = root)]_vars

\* a directory is gone while the other conversation is still stored
C18_Witness ==
    /\ ret.op = "delete" /\ ~disk[ret.id].exists
    /\ \E i \in Ids \ {ret.id} : WellFormedBody(disk[i])

\* C19: updateMetadataWithProjectType(id, tag) throws its not-found error
\* when chat_<id> does not exist or has no metadata.json, and then leaves the
\* storage as it was.
C19_UpdateNotFound ==
    [][(ret'.op = "update"
          /\ (~disk[ret'.id].exists \/ disk[ret'.id].metadata = <<>>)) =>
             /\ ret'.err = "notFound"
             /\ disk' = disk
             /\ root' = root]_vars

\* the directory exists, made by an artifact save, without a metadata file
C19_Witness ==
    /\ ret.op = "update" /\ ret.err = "notFound"
    /\ disk[ret.id].exists /\ disk[ret.id].metadata = <<>>
    /\ disk[ret.id].hasArtifacts

\* C20: with chat_<id> and a metadata record in it,
\* updateMetadataWithProjectType(id, tag) writes the record back with
\* projectType tag and lastModified the current time, every other field as it
\* was, and leaves conversation.json and the artifacts as they were.
C20_UpdateFrame ==
    [][(/\ ret'.op = "update" /\ clock' = clock
        /\ disk[ret'.id].exists /\ disk[ret'.id].metadata # <<>>
        /\ ~ParseThrows(disk[ret'.id].metadata[1])) =>
           LET old == JSONparse(disk[ret'.id].metadata[1])
           IN  /\ ret'.err = "none"
               /\ disk'[ret'.id].metadata # <<>>
               /\ ~ParseThrows(disk'[ret'.id].metadata[1])
               /\ LET new == JSONparse(disk'[ret'.id].metadata[1])
                  IN  /\ DOMAIN new = DOMAIN old \cup {"projectType", "lastModified"}
                      /\ new.projectType = ret'.tag
                      /\ new.lastModified = clock
                      /\ \A k \in DOMAIN old \ {"projectType", "lastModified"} :
                             new[k] = old[k]
               /\ disk'[ret'.id] =
                      [disk[ret'.id] EXCEPT !.metadata = disk'[ret'.id].metadata]]_vars

\* a record with the caller-defined field foo, reclassified at a later time
C20_Witness ==
    /\ ret.op = "update" /\ ret.err = "none" /\ ret.tag = "chat"
    /\ StoredFoo(disk[ret.id]) # <<>>
    /\ StoredType(disk[ret.id]) = "chat"
    /\ JSONparse(disk[ret.id].metadata[1]).lastModified = 1

\* the types saveConversationArtifact and loadConversationArtifact know
SupportedTypes == {"json", "text", "binary"}

\* C21: a loadConversationArtifact(id, name, 'json') that follows a
\* saveConversationArtifact(id, name, v, 'json') returns v, whether or not
\* the conversation or an earlier artifact of that name was stored, and a
\* getConversationArtifacts(id) that follows it has name exactly once.
C21_ArtifactRoundTrip ==
    [][(ret.op = "saveArtifact" /\ ret.tag = "json" /\ ret'.id = ret.id) =>
          /\ (ret'.op = "loadArtifact" /\ ret'.name = ret.name
                  /\ ret'.tag = "json")
                 => (ret'.list = ret.list /\ ret'.err = "none")
          /\ ret'.op = "list" =>
                 Cardinality({j \in 1..Len(ret'.list) :
                                 ret'.list[j] = ret.name}) = 1]_vars

\* the second payload comes back for a conversation that was never saved
C21_Witness ==
    /\ ret.op = "loadArtifact" /\ ret.tag = "json"
    /\ ret.list = <<[a |-> 2]>>
    /\ disk[ret.id].conversation = <<>>

\* C22: loadConversationArtifact on an artifact that is not there returns
\* null and throws nothing, whatever the type argument, and changes nothing.
C22_LoadMissingIsNull ==
    [][(ret'.op = "loadArtifact"
          /\ disk[ret'.id].artifacts[ret'.name] = <<>>) =>
             /\ ret'.list = <<>>
             /\ ret'.err \in {"none", "logged"}
             /\ disk' = disk /\ root' = root]_vars

\* an unrecognized type asked of a conversation that has no directory
C22_Witness ==
    /\ ret.op = "loadArtifact" /\ ret.tag = "yaml"
    /\ ~disk[ret.id].exists
    /\ ret.list = <<>>

\* C23: loadConversationArtifact(id, name, 'json') on a stored artifact whose
\* content is not JSON throws the parse error to its caller.
C23_LoadCorruptThrows ==
    [][(/\ ret'.op = "loadArtifact" /\ ret'.tag = "json"
        /\ disk[ret'.id].artifacts[ret'.name] # <<>>
        /\ ParseThrows(disk[ret'.id].artifacts[ret'.name][1])) =>
           ret'.err = "parseError"]_vars

\* C24: saveConversationArtifact with a type other than json, text and
\* binary writes nothing (no file, no directory) and throws the
\* unsupported-type error to its caller.
C24_UnsupportedTypeWritesNothing ==
    [][(ret'.op = "saveArtifact" /\ ret'.tag \notin SupportedTypes) =>
          /\ disk' = disk /\ root' = root
          /\ ret'.err = "unsupported"]_vars

\* C25: name is among the artifacts getConversationArtifacts(id) gives
\* exactly when it was saved for id and the directory of id was not removed
\* since (step by step: this call saved it, or it was there and this call
\* removed no directory of id); the call returns those names, each once,
\* throws nothing, and returns [] without the directory or its artifacts
\* directory.
C25_ListIsSavedNotRemoved ==
    [][/\ \A i \in Ids, n \in Names :
              n \in GetConversationArtifacts(disk', i) <=>
                  \/ /\ ret'.op = "saveArtifact" /\ ret'.id = i
                     /\ ret'.name = n /\ ret'.tag \in SupportedTypes
                  \/ /\ n \in GetConversationArtifacts(disk, i)
                     /\ ~(ret'.op = "delete" /\ ret'.id = i)
                     /\ ret'.op # "save"
       /\ ret'.op = "list" =>
              /\ {ret'.list[j] : j \in 1..Len(ret'.list)}
                     = {n \in Names : disk[ret'.id].artifacts[n] # <<>>}
              /\ Len(ret'.list) = Cardinality({ret'.list[j] : j \in 1..Len(ret'.list)})
              /\ ret'.err = "none"
              /\ (~disk[ret'.id].exists \/ ~disk[ret'.id].hasArtifacts)
                     => ret'.list = <<>>]_vars

\* both names listed for a directory made by artifact saves alone
C25_Witness ==
    /\ ret.op = "list" /\ Len(ret.list) = 2
    /\ disk[ret.id].conversation = <<>>

\* the running or last call to the API server is a sendMessageToAPI
IsSend == Len(args) = 4

\* the prompt of the request a sendMessageToAPI issued
PromptSent == sent[1].body[1].prompt

\* number of characters of '<Role>: <content>' for one buffered message
RenderedLen(msg) ==
    (IF msg.role = "user" THEN 4 ELSE 2) + 2 + Len(msg.content)

RECURSIVE OffsetOf(_, _)
\* number of characters of the prompt before the k-th buffered message
OffsetOf(buffer, k) ==
    IF k = 1 THEN 0
    ELSE OffsetOf(buffer, k - 1) + RenderedLen(buffer[k - 1]) + 2

\* C26: the prompt built from (buffer, newMessage) is newMessage itself for
\* an empty buffer; otherwise it holds, at consecutive positions and in
\* buffer order, for each buffered message the label User (role user) or AI
\* (every other role), ': ', the whole content and a blank line, and ends
\* with 'User: ' and newMessage; nothing else is in it.
C26_BuildContext ==
    IsSend =>
        LET m == args[1]
            b == args[2]
            p == PromptSent
            n == Len(b)
        IN  IF n = 0 THEN p = m
            ELSE /\ Len(p) = OffsetOf(b, n + 1) + 6 + Len(m)
                 /\ \A k \in 1..n :
                        LET o == OffsetOf(b, k)
                            l == IF b[k].role = "user" THEN 4 ELSE 2
                            c == Len(b[k].content)
                        IN  /\ SubSeq(p, o + 1, o + l) =
                                   (IF b[k].role = "user"
                                    THEN <<"U", "s", "e", "r">>
                                    ELSE <<"A", "I">>)
                            /\ SubSeq(p, o + l + 1, o + l + 2) = <<":", " ">>
                            /\ SubSeq(p, o + l + 3, o + l + 2 + c) = b[k].content
                            /\ SubSeq(p, o + l + 3 + c, o + l + 4 + c) =
                                   <<"\n", "\n">>
                 /\ SubSeq(p, OffsetOf(b, n + 1) + 1, OffsetOf(b, n + 1) + 6) =
                        <<"U", "s", "e", "r", ":", " ">>
                 /\ SubSeq(p, OffsetOf(b, n + 1) + 7, Len(p)) = m

C26_Witness ==
    /\ IsSend
    /\ Len(args[2]) = 2
    /\ args[2][1].role = "system"
    /\ args[2][2].content = Tricky
    /\ args[1] = Hi

\* the body parses to an object with an error field and no response field
IsErrorEnvelope(body) ==
    /\ ~ParseThrows(body)
    /\ ~IsNull(ParseFlat(body))
    /\ Has(ParseFlat(body), "error")
    /\ ~Has(ParseFlat(body), "response")

\* C27: when the response body of a sendMessageToAPI is an envelope with an
\* error field and no response field, the promise is rejected.
C27_ErrorEnvelopeRejects ==
    (IsSend /\ call = "ended" /\ IsErrorEnvelope(responseData[1]))
        => outcome.state = "rejected"

\* C28: the first event of a sendMessageToAPI request settles the promise:
\* 'end' with a body that parses to an envelope with a response field
\* resolves it with that text, 'end' with a body that does not parse rejects
\* it with the protocol error, 'error' rejects it with the transport error;
\* and a rejected promise stays rejected whatever event follows.
C28_SendOutcome ==
    [][/\ (call = "chat" /\ call' = "ended") =>
              LET body == responseData'[1]
              IN  /\ ParseThrows(body) =>
                         outcome' = Rejected("Invalid JSON response from server")
                  /\ (~ParseThrows(body) /\ ~IsNull(ParseFlat(body))
                          /\ Has(ParseFlat(body), "response")) =>
                         outcome' = Resolved(<<ParseFlat(body).response>>)
       /\ (call = "chat" /\ call' = "failed") =>
              outcome' = Rejected("transport")
       /\ (outcome.state = "rejected" /\ call' = "closed") =>
              outcome'.state = "rejected"]_vars

C28_Witness ==
    /\ IsSend
    /\ call = "closed"
    /\ outcome = Rejected("Invalid JSON response from server")

\* C29: a sendMessageToAPI issues one request, to /chat with
\* reset_conversation false; no event of that request issues another one;
\* the first event settles the promise and no later event changes it.
C29_OneRequestOneOutcome ==
    [][/\ call' = "chat" =>
              /\ Len(sent') = 1
              /\ sent'[1].path = "/chat"
              /\ sent'[1].body[1].reset_conversation = FALSE
       /\ (call \in {"chat", "ended", "failed"} /\ call' # "chat"
               /\ call' # "resetChat") =>
              /\ sent' = sent
              /\ call = "chat" =>
                     /\ outcome.state = "pending"
                     /\ outcome'.state \in {"resolved", "rejected"}
              /\ call # "chat" => outcome' = outcome]_vars

C29_Witness ==
    /\ IsSend
    /\ call = "closed"
    /\ outcome.state = "resolved"
    /\ Len(sent) = 1

\* C30: when a resetAIMemory has returned, it has issued the /reset-model
\* request, and its promise is resolved.
C30_ResetAttemptsBoth ==
    (Len(args) = 1 /\ call = "returned") =>
        /\ \E i \in 1..Len(sent) : sent[i].path = "/reset-model"
        /\ outcome.state = "resolved"

\* the file holds the JSON text of an object
HoldsObject(file) ==
    file # <<>> /\ ~ParseThrows(file[1]) /\ ~IsNull(JSONparse(file[1]))

\* C31: in every directory chat_<id> that holds a Metadata record and a
\* conversation body, the record's id is the body's id, its created is that
\* id, its version is '1.0', and its messageCount is the number of messages
\* of the body when the body has a message sequence.
C31_RecordMatchesBody ==
    \A i \in Ids :
        (HoldsObject(disk[i].metadata) /\ HoldsObject(disk[i].conversation)) =>
            LET metadata == JSONparse(disk[i].metadata[1])
                body == JSONparse(disk[i].conversation[1])
            IN  /\ metadata.id = body.id
                /\ metadata.created = body.id
                /\ Has(body, "messages") =>
                       metadata.messageCount = Len(body.messages)
                /\ metadata.version = "1.0"

C31_Witness ==
    /\ ret.op = "update"
    /\ ret.err = "none"
    /\ HoldsObject(disk[ret.id].conversation)
    /\ JSONparse(disk[ret.id].metadata[1]).messageCount = 2
    /\ Len(JSONparse(disk[ret.id].conversation[1]).messages) = 2

\* the Metadata record of the directory, <<>> when it holds none
RecordOf(dir) ==
    IF HoldsObject(dir.metadata) THEN <<JSONparse(dir.metadata[1])>> ELSE <<>>

\* C32: a saveChatHistory that returns without an error leaves a record
\* for every conversation of its list, and every record there is after a
\* saveChatHistory has lastModified equal to the clock; so has the record
\* of the conversation after an updateMetadataWithProjectType that did not
\* throw, and every record that initChatHistory gave its projectType; and
\* no step replaces a lastModified by a smaller one.
C32_LastModifiedRefreshed ==
    [][/\ (ret'.op = "save" /\ clock' = clock) =>
              /\ ret'.err = "none" =>
                     \A k \in 1..Len(convs') :
                         RecordOf(disk'[convs'[k].id]) # <<>>
              /\ \A i \in Ids :
                     RecordOf(disk'[i]) # <<>> =>
                         RecordOf(disk'[i])[1].lastModified = clock
       /\ (ret'.op = "update" /\ ret'.err = "none" /\ clock' = clock) =>
              /\ RecordOf(disk'[ret'.id]) # <<>>
              /\ RecordOf(disk'[ret'.id])[1].lastModified = clock
       /\ (ret'.op = "init" /\ clock' = clock) =>
              \A i \in Ids :
                  (/\ RecordOf(disk[i]) # <<>>
                   /\ ~Has(RecordOf(disk[i])[1], "projectType")) =>
                      /\ RecordOf(disk'[i]) # <<>>
                      /\ RecordOf(disk'[i])[1].projectType = "chat"
                      /\ RecordOf(disk'[i])[1].lastModified = clock
       /\ \A i \in Ids :
              (RecordOf(disk[i]) # <<>> /\ RecordOf(disk'[i]) # <<>>) =>
                  RecordOf(disk'[i])[1].lastModified >=
                      RecordOf(disk[i])[1].lastModified]_vars

C32_Witness ==
    /\ ret.op = "init"
    /\ clock = 1
    /\ \E i \in Ids :
           /\ RecordOf(disk[i]) # <<>>
           /\ RecordOf(disk[i])[1].lastModified = 1
           /\ RecordOf(disk[i])[1].projectType = "chat"
           /\ disk[i].conversation = LegacyDir(i).conversation

\* the calls made for the one conversation ret.id
ForOne ==
    {"update", "delete", "saveArtifact", "loadArtifact", "list"}

\* C34: every deleteChatFile, updateMetadataWithProjectType,
\* saveConversationArtifact, loadConversationArtifact and
\* getConversationArtifacts call for id, whether it fails or not, leaves
\* the directory of every other conversation as it was: its existence, its
\* body, its Metadata record, its artifacts directory and its artifacts.
C34_OthersUntouched ==
    [][ret'.op \in ForOne =>
           \A id2 \in Ids \ {ret'.id} : disk'[id2] = disk[id2]]_vars

C34_Witness ==
    /\ ret.op = "update"
    /\ ret.err = "parseError"
    /\ \E id2 \in Ids \ {ret.id} : disk[id2].artifacts["x.json"] # <<>>

\* what loadChatHistory can return on storage d, one list per enumeration
\* order of the directories
LoadResults(rootExists, d) ==
    {LoadResult(rootExists, d, order) :
         order \in Enumerations(ConversationDirs(d))}

\* C35: a saveConversationArtifact, loadConversationArtifact or
\* getConversationArtifacts call leaves what loadChatHistory returns as it
\* was, also when it creates the directory chat_<id>.
C35_ArtifactsKeepLoad ==
    [][ret'.op \in {"saveArtifact", "loadArtifact", "list"} =>
           LoadResults(root', disk') = LoadResults(root, disk)]_vars

C35_Witness ==
    /\ ret.op = "saveArtifact"
    /\ disk[ret.id].conversation = <<>>
    /\ disk[ret.id].metadata = <<>>
    /\ disk[ret.id].artifacts[ret.name] # <<>>
    /\ \E id2 \in Ids : disk[id2].conversation # <<>>

\* the record has no classification, as initializeDefaultProjectTypes
\* tests it
LacksProjectType(metadata) ==
    ~Has(metadata, "projectType") \/ metadata.projectType = ""

\* the storage initChatHistory leaves when it is run on d at time now and
\* no filesystem call fails
InitAgain(d, now) ==
    TypesBackfill(ArtifactsBackfill(d, ConversationDirs(d)),
                  ConversationDirs(d), now)

\* C36: initChatHistory removes and creates no conversation directory and
\* changes no body and no artifact; a metadata.json is either left as it is
\* or held a record without projectType, which is written back with
\* projectType 'chat', lastModified the clock and every other field as it
\* was; and when no filesystem call failed, running initChatHistory again
\* on the storage it left changes nothing and returns the same list.
C36_InitIdempotent ==
    [][ret'.op = "init" =>
           /\ \A i \in Ids :
                  /\ disk'[i].exists = disk[i].exists
                  /\ disk'[i].conversation = disk[i].conversation
                  /\ disk'[i].artifacts = disk[i].artifacts
                  /\ \/ disk'[i].metadata = disk[i].metadata
                     \/ /\ HoldsObject(disk[i].metadata)
                        /\ LacksProjectType(JSONparse(disk[i].metadata[1]))
                        /\ disk'[i].metadata =
                               <<JSONstringify(
                                   Assign(Assign(JSONparse(disk[i].metadata[1]),
                                                 "projectType", "chat"),
                                          "lastModified", clock))>>
           /\ ret'.err \in {"none", "sort"} =>
                  /\ InitAgain(disk', clock') = disk'
                  /\ LoadResults(TRUE, InitAgain(disk', clock')) = {ret'.list}]_vars

C36_Witness ==
    /\ ret.op = "init"
    /\ ret.err = "none"
    /\ Len(ret.list) = 2
    /\ disk[1].artifacts["x.json"] # <<>>
    /\ JSONparse(disk[1].metadata[1]).projectType = "chat"
    /\ disk[2] = CustomDir(2)

\* C38: the request of a sendMessageToAPI carries the claude-api-key header
\* exactly when the model is 'claude-sonnet-4-5' and the key is neither
\* null nor empty, the header is then the key, and the body is the prompt,
\* the model and the reset flag whatever the key is.
C38_KeyOnlyForClaude ==
    IsSend =>
        LET model == args[3]
            claudeApiKey == args[4]
        IN  /\ sent[1].apiKey # <<>> <=>
                   (model = "claude-sonnet-4-5"
                        /\ claudeApiKey \notin {<<>>, <<"">>})
            /\ sent[1].apiKey # <<>> => sent[1].apiKey = claudeApiKey
            /\ sent[1].body =
                   <<[prompt |-> fullPrompt(args[1], args[2]),
                      model |-> model,
                      reset_conversation |-> FALSE]>>

C38_Witness ==
    /\ IsSend
    /\ sent[1].apiKey = <<"sk-ant">>
    /\ call = "ended"

\* C39: when every request ends, every sendMessageToAPI is resolved or
\* rejected and every resetAIMemory returns; and a pending promise changes
\* only in a step in which a request ends.
C39_CallsComplete ==
    /\ (call = "chat") ~> (outcome.state \in {"resolved", "rejected"})
    /\ (call \in {"resetChat", "resetModel"}) ~> (call = "returned")
    /\ [][outcome.state = "pending" =>
              \/ outcome' = outcome
              \/ /\ call \in {"chat", "failed", "resetChat", "resetModel"}
                 /\ call' \in {"ended", "failed", "closed", "returned"}]_vars

C39_Witness ==
    /\ call = "returned"
    /\ Len(sent) = 2
    /\ outcome.state = "resolved"

\* C33: initChatHistory, saveChatHistory, loadChatHistory and deleteChatFile
\* act only on the directories of chat_history/ whose name starts with
\* chat_: a regular file, also one named chat_3, and a directory of another
\* name are left exactly as they were by every call, and no conversation
\* read from them is in a returned list.
C33_OnlyConversationDirs ==
    [][/\ others' = others
       /\ \A k \in 1..Len(ret'.list) :
              (ret'.op \in {"load", "init"} /\ Has(ret'.list[k], "id"))
                  => ret'.list[k].id \in Ids]_vars

C33_Witness ==
    /\ ret.op = "save"
    /\ convs = <<>>
    /\ disk = NoDisk
    /\ others[FileName] = FileEntry
    /\ others[BackupName] = DirEntry(BackupDir)
    /\ others[PlainName] = FileEntry

\* ---------------------------------------------------------------------
\* The command-line chat (src/unnamed/part_003): startChat checks that
\* Ollama is running, then askQuestion reads a multi-line input, asks
\* Ollama with the whole history as context and records the exchange.
\* ---------------------------------------------------------------------

\* successful exchanges kept in the history before the loop stops reading
MaxTurns == 2

\* lines typed before /send
MaxLines == 2

Quit == <<"q","u","i","t">>

UserLabel == <<"U","s","e","r",":"," ">>

AILabel == <<"A","I",":"," ">>

\* the lines a user types between two commands
Lines == {Hi, <<>>, Quit}

\* the response bodies Ollama answers with
OllamaBodies ==
    ResponseBodies \o << <<<<"response", <<>>>>>> >>

\* number of lines collected in the input so far
LinesIn(s) == Cardinality({i \in 1..Len(s) : s[i] = "\n"})

\* fullContext of askOllama: the history joined by newlines, then the prompt
FullContext(history, prompt) ==
    IF Len(history) > 0 THEN join(history, <<"\n">>) \o <<"\n">> \o prompt
    ELSE prompt

\* an error envelope is taken for an answer
OllamaResultLenient(body) ==
    IF ParseThrows(body)
    THEN Rejected("Failed to parse response")
    ELSE LET response == ParseFlat(body)
         IN  IF IsNull(response) THEN Rejected("Failed to parse response")
             ELSE IF Has(response, "response") /\ response.response # <<>>
                  THEN Resolved(response.response)
             ELSE IF Has(response, "error") /\ response.error # <<>>
                  THEN Resolved(response.error)
             ELSE Rejected("Unexpected response format from Ollama")

\* the 'end' handler of askOllama: the promise resolves with a truthy
\* response, every other body rejects
OllamaResult(body) ==
    IF ParseThrows(body)
    THEN Rejected("Failed to parse response")
    ELSE LET response == ParseFlat(body)
         IN  IF IsNull(response) THEN Rejected("Failed to parse response")
             ELSE IF Has(response, "response") /\ response.response # <<>>
                  THEN Resolved(response.response)
             ELSE IF Has(response, "error") /\ response.error # <<>>
                  THEN Rejected("Ollama error")
             ELSE Rejected("Unexpected response format from Ollama")

\* the two pushes of askQuestion after a successful askOllama
Exchange(history, text, response) ==
    history \o <<UserLabel \o text, AILabel \o response>>

\* startChat: checkOllamaStatus answers, the first askQuestion starts
\* reading; without Ollama the process exits
StartChat(running) ==
    /\ loop = "start"
    /\ loop' = IF running THEN "reading" ELSE "exited"
    /\ UNCHANGED <<conversationHistory, input, fullContext, ollamaData>>
    /\ UNCHANGED <<root, disk, others, clock, pc, saveVars, ret, apiVars>>

\* collectInput: a line that is no command is added to the input
CollectInput(line) ==
    /\ loop = "reading"
    /\ LinesIn(input) < MaxLines
    /\ input' = input \o line \o <<"\n">>
    /\ UNCHANGED <<conversationHistory, loop, fullContext, ollamaData>>
    /\ UNCHANGED <<root, disk, others, clock, pc, saveVars, ret, apiVars>>

\* the line /quit: getMultiLineInput resolves 'quit', askQuestion closes
\* the interface and returns
QuitLine ==
    /\ loop = "reading"
    /\ input' = Quit
    /\ loop' = "closed"
    /\ UNCHANGED <<conversationHistory, fullContext, ollamaData>>
    /\ UNCHANGED <<root, disk, others, clock, pc, saveVars, ret, apiVars>>

\* the line /send: getMultiLineInput resolves the trimmed input; askQuestion
\* closes on 'quit', reads again on an empty input and asks Ollama otherwise
SendLine ==
    /\ loop = "reading"
    /\ LET text == trim(input)
       IN  IF text = Quit
           THEN /\ input' = text
                /\ loop' = "closed"
                /\ UNCHANGED <<conversationHistory, fullContext, ollamaData>>
           ELSE IF trim(text) = <<>>
           THEN /\ input' = <<>>
                /\ loop' = "reading"
                /\ UNCHANGED <<conversationHistory, fullContext, ollamaData>>
           ELSE /\ Len(conversationHistory) < 2 * MaxTurns
                /\ input' = text
                /\ loop' = "asking"
                /\ fullContext' = FullContext(conversationHistory, text)
                /\ ollamaData' = <<>>
                /\ UNCHANGED conversationHistory
    /\ UNCHANGED <<root, disk, others, clock, pc, saveVars, ret, apiVars>>

\* the response ends: askOllama settles; on success askQuestion pushes the
\* exchange, on failure it prints the error; then it reads the next input
AskOllamaEnd(body) ==
    /\ loop = "asking"
    /\ ollamaData' = <<body>>
    /\ LET result == OllamaResult(body)
       IN  conversationHistory' =
               IF result.state = "resolved"
               THEN Exchange(conversationHistory, input, result.value)
               ELSE conversationHistory
    /\ input' = <<>>
    /\ loop' = "reading"
    /\ UNCHANGED fullContext
    /\ UNCHANGED <<root, disk, others, clock, pc, saveVars, ret, apiVars>>

\* the request fails: askOllama rejects, askQuestion prints the error and
\* reads the next input
AskOllamaError ==
    /\ loop = "asking"
    /\ input' = <<>>
    /\ loop' = "reading"
    /\ UNCHANGED <<conversationHistory, fullContext, ollamaData>>
    /\ UNCHANGED <<root, disk, others, clock, pc, saveVars, ret, apiVars>>

InitChat ==
    /\ InitGateway

NextChat ==
    \/ \E running \in BOOLEAN : StartChat(running)
    \/ \E line \in Lines : CollectInput(line)
    \/ QuitLine
    \/ SendLine
    \/ \E k \in 1..Len(OllamaBodies) : AskOllamaEnd(OllamaBodies[k])
    \/ AskOllamaError

SpecChat == InitChat /\ [][NextChat]_vars

\* C40: the history of the command-line chat changes only when an
\* askOllama call succeeds, and then by exactly the two entries
\* 'User: <input>' and 'AI: <response>' appended in that order; a failed
\* call (request error, unparsable body, error envelope, envelope without a
\* response) and an empty input leave it unchanged; after both outcomes the
\* loop reads the next input, so the history always holds whole user/AI
\* pairs in turn order.
AnswerIn(text) ==
    IF ParseThrows(text) THEN <<>>
    ELSE LET o == ParseFlat(text)
         IN  IF ~IsNull(o) /\ Has(o, "response") THEN o.response ELSE <<>>

PairsInOrder(history) ==
    /\ Len(history) % 2 = 0
    /\ \A i \in 1..Len(history) :
           IF i % 2 = 1 THEN startsWith(history[i], UserLabel)
           ELSE startsWith(history[i], AILabel)

C40_HistoryOnSuccessOnly ==
    [][/\ loop # "asking" => conversationHistory' = conversationHistory
       /\ loop = "asking" =>
              /\ loop' = "reading"
              /\ IF ollamaData' # <<>> /\ AnswerIn(ollamaData'[1]) # <<>>
                 THEN conversationHistory' =
                          conversationHistory \o
                              <<UserLabel \o input,
                                AILabel \o AnswerIn(ollamaData'[1])>>
                 ELSE conversationHistory' = conversationHistory
       /\ (loop = "reading" /\ loop' = "asking") => input' # <<>>
       /\ (loop = "reading" /\ trim(input) = <<>> /\ loop' # "closed")
              => loop' = "reading"
       /\ PairsInOrder(conversationHistory')]_vars

C40_Witness ==
    /\ conversationHistory = <<UserLabel \o Hi \o <<"\n">> \o Hi, AILabel \o Hi>>
    /\ loop = "reading"
    /\ ollamaData = <<<<<<"error", Hi>>>>>>

\* ---------------------------------------------------------------------
\* The second definition of ChatManager (src/unnamed/part_004): its
\* storage operations and its prompt, translated from its own text. The
\* Node.js library (String, JSON, Array, fs) is the one above.
\* ---------------------------------------------------------------------

\* the directive prefix 'dataknot:' and the recognised command 'start recipe'
DataKnotPrefix_004 == <<"d","a","t","a","k","n","o","t",":">>

StartRecipe_004 == <<"s","t","a","r","t"," ","r","e","c","i","p","e">>

\* the literal 9 of messageContent.substring(9)
PrefixLen_004 == 9

\* 'chat_' of `chat_${conversation.id}` and of the startsWith filter
ChatPrefix_004 == <<"c","h","a","t","_">>

\* `chat_${conversationId}`
DirName_004(id) == ChatPrefix_004 \o <<Digits[id]>>

\* stat.isDirectory() && file.startsWith('chat_')
IsConversationDir_004(file, isDirectory) ==
    isDirectory /\ startsWith(file, ChatPrefix_004)

\* readdirSync(chatHistoryDir) filtered by isDirectory() and
\* startsWith('chat_')
ConversationDirs_004(d) ==
    {i \in Ids : d[i].exists /\ IsConversationDir_004(DirName_004(i), d[i].exists)}

\* the entries of other names the same filter lets through
ConversationOthers_004(o) ==
    {n \in OtherNames : /\ o[n].kind # "none"
                        /\ IsConversationDir_004(n, o[n].kind = "directory")}

\* removeDirectoryRecursive(filePath) from entry to return
RemoveDirectory_004(d, id) == [d EXCEPT ![id] = NoDir]

\* the clear loop from entry to exit: every conversation directory removed
ClearAll_004(d) ==
    [i \in Ids |-> IF i \in ConversationDirs_004(d) THEN RemoveDirectory_004(d, i)[i]
                   ELSE d[i]]

\* the clear loop on the entries of other names
ClearOthers_004(o) ==
    [n \in OtherNames |-> IF n \in ConversationOthers_004(o) THEN NoEntry ELSE o[n]]

\* conversation.messages.filter(msg => msg.role === 'user').pop(), as the
\* sequence holding that message, or <<>> when it is undefined
LastUserMessage_004(conversation) ==
    LET users == SelectSeq(conversation.messages, LAMBDA m : m.role = "user")
    IN  IF users = <<>> THEN <<>> ELSE <<users[Len(users)]>>

\* the message is the directive 'dataknot: start recipe'
IsStartRecipe_004(content) ==
    LET messageContent == toLowerCase(trim(content))
    IN  /\ startsWith(messageContent, DataKnotPrefix_004)
        /\ trim(substring(messageContent, PrefixLen_004)) = StartRecipe_004

\* the metadata object before the messageCount assignment
MetadataHead_004(existing, conversation, now) ==
    Assign(Assign(Assign(Assign(existing,
        "id", conversation.id),
        "title", conversation.title),
        "created", conversation.id),
        "lastModified", now)

\* projectType defaults to 'chat' when the object has none
WithDefaultType_004(metadata) ==
    IF ~Has(metadata, "projectType") \/ metadata.projectType = ""
    THEN Assign(metadata, "projectType", "chat") ELSE metadata

\* the DataKnot command of the last user message applied to the object
ProcessCommand_004(metadata, conversation, now) ==
    LET last == LastUserMessage_004(conversation)
    IN  IF last # <<>> /\ IsStartRecipe_004(last[1].content)
        THEN Assign(Assign(metadata, "projectType", "recipe"),
                    "lastModified", now)
        ELSE metadata

\* the metadata object that is written
NewMetadata_004(existing, conversation, now) ==
    ProcessCommand_004(
        WithDefaultType_004(
            Assign(Assign(MetadataHead_004(existing, conversation, now),
                "messageCount", Len(conversation.messages)),
                "version", "1.0")),
        conversation, now)

\* the existing metadata.json parsed, or {} when absent or unparsable
ExistingMetadata_004(dir) ==
    IF dir.metadata = <<>> \/ ParseThrows(dir.metadata[1])
    THEN <<>> ELSE JSONparse(dir.metadata[1])

\* writeFileSync(conversationFile, JSON.stringify(conversation, null, 2))
WriteConversation_004(d, conversation) ==
    [d EXCEPT ![conversation.id].conversation = <<JSONstringify(conversation)>>]

\* conversation.messages.length throws a TypeError: messages is undefined
MetadataThrows_004(conversation) == ~Has(conversation, "messages")

\* the read-modify-write of metadata.json
WriteMetadata_004(d, conversation, now) ==
    [d EXCEPT ![conversation.id].metadata =
        <<JSONstringify(NewMetadata_004(ExistingMetadata_004(d[conversation.id]),
                                    conversation, now))>>]

\* the forEach callback up to the metadata step
WriteBody_004(d, conversation) ==
    WriteConversation_004(
        MkdirArtifacts(Mkdir(d, conversation.id), conversation.id),
        conversation)

RECURSIVE WriteFrom_004(_, _, _, _)
\* conversations.forEach from index i on; an exception thrown by a callback
\* leaves the forEach and is logged by the outer catch
WriteFrom_004(d, L, i, now) ==
    IF i > Len(L) THEN [disk |-> d, err |-> "none"]
    ELSE LET body == WriteBody_004(d, L[i])
         IN  IF MetadataThrows_004(L[i]) THEN [disk |-> body, err |-> "logged"]
             ELSE WriteFrom_004(WriteMetadata_004(body, L[i], now), L, i + 1, now)

\* saveChatHistory from entry to return
SaveResult_004(d, L, now) == WriteFrom_004(ClearAll_004(d), L, 1, now)

SaveChatHistory_004(L) ==
    /\ Idle
    /\ root' = TRUE
    /\ LET r == SaveResult_004(disk, L, clock)
       IN  /\ disk' = r.disk
           /\ ret' = Ret("save", r.err, <<>>)
    /\ others' = ClearOthers_004(others)
    /\ convs' = L
    /\ pc' = "done"
    /\ UNCHANGED <<clock, idx, files, cur, curFiles, artFiles, pre>>
    /\ UNCHANGED <<apiVars, cliVars>>

RECURSIVE ReadConversations_004(_, _)
\* conversationDirs.forEach: push each parsable conversation.json
ReadConversations_004(d, order) ==
    IF order = <<>> THEN <<>>
    ELSE LET dir == d[order[1]]
             rest == ReadConversations_004(d, SubSeq(order, 2, Len(order)))
         IN  IF dir.conversation = <<>> \/ ParseThrows(dir.conversation[1])
             THEN rest
             ELSE <<JSONparse(dir.conversation[1])>> \o rest

\* the bodies read from the entries of other names that pass the filter
ReadOthers_004(o) ==
    ReadConversations_004([n \in OtherNames |-> o[n].dir],
                      SelectSeq(OtherOrder, LAMBDA n : n \in ConversationOthers_004(o)))

\* the comparator (a, b) => b.id - a.id throws a TypeError when it is handed
\* null; sort calls it on every element of an array of two or more
SortThrows_004(list) ==
    Len(list) >= 2 /\ \E i \in 1..Len(list) : IsNull(list[i])

\* loadChatHistory on storage d with the directories enumerated in order;
\* the outer catch returns [] when the sort throws
LoadResult_004(rootExists, d, order) ==
    IF ~rootExists THEN <<>>
    ELSE LET conversations == ReadConversations_004(d, order) \o ReadOthers_004(others)
         IN  IF SortThrows_004(conversations) THEN <<>>
             ELSE SortDescending(conversations)

\* "sort" when the outer catch of loadChatHistory ran
LoadError_004(rootExists, d, order) ==
    IF rootExists /\ SortThrows_004(ReadConversations_004(d, order) \o ReadOthers_004(others))
    THEN "sort"
    ELSE "none"

LoadChatHistory_004 ==
    /\ Idle
    /\ \E order \in Enumerations(ConversationDirs_004(disk)) :
           ret' = Ret("load", LoadError_004(root, disk, order),
                      LoadResult_004(root, disk, order))
    /\ UNCHANGED <<root, disk, clock, pc, saveVars>>
    /\ UNCHANGED <<apiVars, cliVars, others>>

\* createArtifactsDirectories on one directory
WithArtifactsDir_004(dir) ==
    IF dir.exists THEN [dir EXCEPT !.hasArtifacts = TRUE] ELSE dir

\* initializeDefaultProjectTypes on one directory
WithDefaultProjectType_004(dir, now) ==
    IF ~dir.exists \/ dir.metadata = <<>> \/ ParseThrows(dir.metadata[1])
    THEN dir
    ELSE LET metadata == JSONparse(dir.metadata[1])
         IN  IF ~Has(metadata, "projectType") \/ metadata.projectType = ""
             THEN [dir EXCEPT !.metadata = <<JSONstringify(
                      Assign(Assign(metadata, "projectType", "chat"),
                             "lastModified", now))>>]
             ELSE dir

\* createArtifactsDirectories that got through the directories of done
\* before readdirSync, statSync or mkdirSync threw into its catch
ArtifactsBackfill_004(d, done) ==
    [i \in Ids |-> IF i \in done THEN WithArtifactsDir_004(d[i]) ELSE d[i]]

\* initializeDefaultProjectTypes that got through the directories of done
\* before readdirSync or statSync threw into its outer catch
TypesBackfill_004(d, done, now) ==
    [i \in Ids |-> IF i \in done THEN WithDefaultProjectType_004(d[i], now)
                   ELSE d[i]]

\* createArtifactsDirectories on the entries of other names
OthersArtifacts_004(o) ==
    [n \in OtherNames |->
        IF n \in ConversationOthers_004(o)
        THEN [o[n] EXCEPT !.dir = WithArtifactsDir_004(o[n].dir)] ELSE o[n]]

\* initializeDefaultProjectTypes on the entries of other names
OthersTypes_004(o, now) ==
    [n \in OtherNames |->
        IF n \in ConversationOthers_004(o)
        THEN [o[n] EXCEPT !.dir = WithDefaultProjectType_004(o[n].dir, now)]
        ELSE o[n]]

\* what the two backfills of initChatHistory leave of the entries of other
\* names when a filesystem call fails in step fail
OthersBackfilled_004(o, fail, now) ==
    IF fail = "artifacts" THEN {o, OthersArtifacts_004(o)}
    ELSE IF fail = "types"
    THEN {OthersArtifacts_004(o), OthersTypes_004(OthersArtifacts_004(o), now)}
    ELSE {OthersTypes_004(OthersArtifacts_004(o), now)}

\* the catch block of initChatHistory: log and return []
InitCaught_004 == Ret("init", "mkdir", <<>>)

\* initChatHistory with a filesystem call failing in step fail ("none": no
\* call fails); err names the step that failed, "sort" when the load's sort
\* threw
InitChatHistory_004(fail) ==
    /\ Idle
    /\ \E done \in SUBSET ConversationDirs_004(disk),
          order \in Enumerations(ConversationDirs_004(disk)) :
        LET all == ConversationDirs_004(disk)
            withArtifacts ==
                ArtifactsBackfill_004(disk, IF fail = "artifacts" THEN done ELSE all)
            withTypes ==
                TypesBackfill_004(withArtifacts,
                              IF fail = "types" THEN done ELSE all, clock)
        IN  /\ fail \in {"artifacts", "types"} \/ done = all
            /\ IF fail = "mkdir"
               THEN /\ ~root
                    /\ UNCHANGED <<root, disk, others>>
                    /\ ret' = InitCaught_004
               ELSE /\ root' = TRUE
                    /\ disk' = withTypes
                    /\ others' \in OthersBackfilled_004(others, fail, clock)
                    /\ ret' = IF fail = "load" THEN Ret("init", "load", <<>>)
                              ELSE Ret("init",
                                       IF fail = "none"
                                       THEN LoadError_004(TRUE, withTypes, order)
                                       ELSE fail,
                                       LoadResult_004(TRUE, withTypes, order))
    /\ ResetSave
    /\ UNCHANGED clock
    /\ UNCHANGED <<apiVars, cliVars>>

\* metadata.projectType = projectType; metadata.lastModified = Date.now()
UpdatedMetadata_004(metadata, projectType, now) ==
    Assign(Assign(metadata, "projectType", projectType), "lastModified", now)

\* updateMetadataWithProjectType on storage d: the storage it leaves and
\* the error it rethrows ("notFound": one of the two 'not found' Errors,
\* "parseError": the SyntaxError of JSON.parse)
UpdateResult_004(d, id, projectType, now) ==
    IF ~d[id].exists \/ d[id].metadata = <<>>
    THEN [disk |-> d, err |-> "notFound"]
    ELSE IF ParseThrows(d[id].metadata[1])
    THEN [disk |-> d, err |-> "parseError"]
    ELSE [disk |-> [d EXCEPT ![id].metadata = <<JSONstringify(
                       UpdatedMetadata_004(JSONparse(d[id].metadata[1]),
                                       projectType, now))>>],
          err |-> "none"]

UpdateMetadataWithProjectType_004(id, projectType) ==
    /\ Idle
    /\ LET r == UpdateResult_004(disk, id, projectType, clock)
       IN  /\ disk' = r.disk
           /\ ret' = [RetFor("update", id, r.err) EXCEPT !.tag = projectType]
    /\ ResetSave
    /\ UNCHANGED <<root, clock>>
    /\ UNCHANGED <<apiVars, cliVars, others>>

\* existsSync(conversationPath), then removeDirectoryRecursive; on a path
\* that is a regular file readdirSync throws into the catch
DeleteChatFile_004(id) ==
    /\ Idle
    /\ IF id \in Ids
       THEN /\ disk' = RemoveDirectory_004(disk, id)
            /\ ret' = RetFor("delete", id, "none")
       ELSE /\ disk' = disk
            /\ ret' = RetFor("delete", id,
                             IF others[DirName_004(id)].kind = "file" THEN "logged"
                             ELSE "none")
    /\ ResetSave
    /\ UNCHANGED <<root, clock>>
    /\ UNCHANGED <<apiVars, cliVars, others>>

\* what writeFileSync stores for a payload of a supported type
ArtifactText_004(data, type) ==
    IF type = "json" THEN StringifyFlat(data) ELSE data

\* saveConversationArtifact on storage d
ArtifactSaved_004(d, id, name, data, type) ==
    LET made == MkdirArtifacts(Mkdir(d, id), id)
    IN  IF type \in {"json", "text", "binary"}
        THEN [made EXCEPT ![id].artifacts[name] = <<ArtifactText_004(data, type)>>]
        ELSE made

SaveConversationArtifact_004(id, name, data, type) ==
    /\ Idle
    /\ root' = TRUE
    /\ disk' = ArtifactSaved_004(disk, id, name, data, type)
    /\ ret' = RetArtifact("saveArtifact", id, name, type,
                          IF type \in {"json", "text", "binary"} THEN "none"
                          ELSE "logged", <<data>>)
    /\ ResetSave
    /\ UNCHANGED clock
    /\ UNCHANGED <<apiVars, cliVars, others>>

\* 'return null' when existsSync(artifactPath) is false
ArtifactMissing_004 == [value |-> <<>>, err |-> "none"]

\* the catch block of loadConversationArtifact: log and return null
ArtifactCaught_004 == [value |-> <<>>, err |-> "logged"]

\* loadConversationArtifact on storage d: the value returned (empty: null)
\* and "logged" when the catch block ran
LoadArtifactResult_004(d, id, name, type) ==
    IF d[id].artifacts[name] = <<>> THEN ArtifactMissing_004
    ELSE LET data == d[id].artifacts[name][1]
         IN  CASE type = "json" ->
                      IF ParseThrows(data) THEN ArtifactCaught_004
                      ELSE [value |-> <<ParseFlat(data)>>, err |-> "none"]
               [] type \in {"text", "binary"} ->
                      [value |-> <<data>>, err |-> "none"]
               [] OTHER -> ArtifactCaught_004

LoadConversationArtifact_004(id, name, type) ==
    /\ Idle
    /\ LET r == LoadArtifactResult_004(disk, id, name, type)
       IN  ret' = RetArtifact("loadArtifact", id, name, type, r.err, r.value)
    /\ UNCHANGED <<root, disk, clock, pc, saveVars>>
    /\ UNCHANGED <<apiVars, cliVars, others>>

\* getConversationArtifacts on storage d
GetConversationArtifacts_004(d, id) ==
    IF d[id].hasArtifacts THEN ArtifactNames(d[id]) ELSE {}

\* the call: the names in the order readdirSync gives them
GetArtifacts_004(id) ==
    /\ Idle
    /\ \E order \in Enumerations(GetConversationArtifacts_004(disk, id)) :
           ret' = [RetFor("list", id, "none") EXCEPT !.list = order]
    /\ UNCHANGED <<root, disk, clock, pc, saveVars>>
    /\ UNCHANGED <<apiVars, cliVars, others>>

\* the separator of join('\n\n')
Sep_004 == <<"\n", "\n">>

\* msg.role === 'user' ? 'User' : 'AI'
RoleLabel_004(role) ==
    IF role = "user" THEN <<"U", "s", "e", "r">> ELSE <<"A", "I">>

\* conversationBuffer.map(msg => `${label}: ${msg.content}`).join('\n\n')
contextMessages_004(conversationBuffer) ==
    join([i \in 1..Len(conversationBuffer) |->
              RoleLabel_004(conversationBuffer[i].role) \o <<":", " ">>
                  \o conversationBuffer[i].content],
         Sep_004)

\* the prompt sendMessageToAPI builds
fullPrompt_004(messageContent, conversationBuffer) ==
    IF Len(conversationBuffer) > 0
    THEN contextMessages_004(conversationBuffer) \o Sep_004
             \o <<"U", "s", "e", "r", ":", " ">> \o messageContent
    ELSE messageContent

\* a storage root as either manager may find it
FullOthers ==
    [n \in OtherNames |->
        IF n = BackupName THEN DirEntry(BackupDir) ELSE FileEntry]

InitBoth ==
    /\ \/ root = FALSE /\ disk = NoDisk /\ others = NoOthers
       \/ /\ root = TRUE
          /\ disk \in [Ids -> {NoDir, CorruptDir} \cup
                        UNION {{LegacyDir(i), CustomDir(i)} : i \in Ids}]
          /\ disk[1] = LegacyDir(1)
          /\ disk[2] \in {NoDir, CorruptDir}
          /\ others = FullOthers
    /\ clock = 0
    /\ pc = "idle"
    /\ convs = <<>>
    /\ idx = 0
    /\ files = {}
    /\ cur = 0
    /\ curFiles = {}
    /\ artFiles = {}
    /\ pre = NoDisk
    /\ ret = Ret("none", "none", <<>>)
    /\ NoCall
    /\ NoChat

\* the lists and the prompts both managers are called with
BothLists ==
    {<<>>, <<Conv(1, <<User(CmdStart)>>)>>,
     <<Conv(2, <<User(Hi), Assistant(Hi)>>), ConvNoMessages(1)>>}

BothCalls ==
    {c \in SendCalls :
        /\ c[1] = Hi
        /\ c[4] = <<>>
        /\ Len(c[2]) \in {0, MaxBuffer}
        /\ \A k \in 1..Len(c[2]) :
               c[2][k] = IF k % 2 = 1 THEN User(Tricky) ELSE Assistant(Hi)}

\* the storage calls of the manager of src/main.js
StorageCalls ==
    \/ \E L \in BothLists : SaveChatHistory(L)
    \/ LoadChatHistory
    \/ \E fail \in InitFailures : InitChatHistory(fail)
    \/ \E id \in Ids : UpdateMetadataWithProjectType(id, "recipe")
    \/ \E id \in {1, FileId} : DeleteChatFile(id)
    \/ \E data \in ArtifactData, type \in ArtifactTypes :
           SaveConversationArtifact(1, "x.json", data, type)
    \/ \E type \in LoadTypes : LoadConversationArtifact(1, "x.json", type)
    \/ GetArtifacts(1)

NextBoth ==
    \/ StorageCalls
    \/ \E c \in BothCalls : SendMessageToAPI(c[1], c[2], c[3], c[4])

SpecBoth == InitBoth /\ [][NextBoth]_vars

\* C37: the two definitions of ChatManager are equivalent on the storage
\* operations: whatever a call of the manager of src/main.js returns and
\* leaves on disk, the same call of the manager of src/unnamed/part_004
\* returns and leaves from the same storage; and for the same buffer and
\* message the request carries the prompt the second manager builds.
C37_SameManager ==
    [][/\ call' = call =>
              /\ ret'.op # "none"
              /\ ret'.op = "save" => SaveChatHistory_004(convs')
              /\ ret'.op = "load" => LoadChatHistory_004
              /\ ret'.op = "init" =>
                     \E fail \in InitFailures : InitChatHistory_004(fail)
              /\ ret'.op = "update" =>
                     UpdateMetadataWithProjectType_004(ret'.id, ret'.tag)
              /\ ret'.op = "delete" => DeleteChatFile_004(ret'.id)
              /\ ret'.op = "saveArtifact" =>
                     SaveConversationArtifact_004(ret'.id, ret'.name,
                                                  ret'.list[1], ret'.tag)
              /\ ret'.op = "loadArtifact" =>
                     LoadConversationArtifact_004(ret'.id, ret'.name, ret'.tag)
              /\ ret'.op = "list" => GetArtifacts_004(ret'.id)
       /\ call' # call =>
              sent'[1].body[1].prompt = fullPrompt_004(args'[1], args'[2])]_vars

C37_Witness ==
    /\ ret.op = "save"
    /\ ret.err = "logged"
    /\ call = "chat"
    /\ Len(args[2]) = MaxBuffer
    /\ others = FullOthers
    /\ disk[2].exists
====
